---- MODULE Spec2Model ----
(***************************************************************************)
(* A model of the Vega scene graph (scene.cpp): the identifier allocator,  *)
(* the node tree with its transform propagation, the material graph, the   *)
(* geometry store and the two scene queries (draw list, bounding box).     *)
(*                                                                         *)
(* Numbers.  Floats are modelled by integers: every parameter the model    *)
(* draws is a small integer, for which float addition and multiplication   *)
(* are exact.  Rotation angles are counted in quarter turns, with exact    *)
(* sine and cosine.  The two <cfloat> limits used by the bounding-box fold *)
(* are kept apart from ordinary coordinates by the pair encoding of        *)
(* Flt below.                                                              *)
(*                                                                         *)
(* Pointers.  Every object lives at an address of `heap' (its index);      *)
(* NULL is 0.  A pointer to a MeshNode's m_transform is the address of     *)
(* that MeshNode.                                                          *)
(***************************************************************************)
EXTENDS Integers, Sequences, FiniteSets, TLC

VARIABLES
    id,       \* GetUniqueID's static std::atomic_int
    heap,     \* the objects, by address
    scenes,   \* the Scene objects: root node and the two managers
    last,     \* the last operation performed and what it returned
    issued,   \* every value GetUniqueID returned, in order of return
    pc,       \* per thread: position inside GetUniqueID
    calls     \* per thread: completed calls of GetUniqueID

vars == <<id, heap, scenes, last, issued, pc, calls>>

(***************************************************************************)
(* Bounds                                                                  *)
(***************************************************************************)
MaxObjs == 5
MaxScenes == 2
MaxTreeNodes == 3
MaxDrawMaterials == 2
MaxDrawInstances == 2
MaxDrawNodes == 2
MaxChains == 1
NumThreads == 2
MaxCalls == 3
MaxPropObjects == 2
MaxReflectPerKind == 1
MaxContractNodes == 2

MaxTwinMaterials == 2

MaxFaces == 2

NULL == 0

(***************************************************************************)
(* Vectors and matrices (glm::vec3, glm::vec4, glm::mat4)                  *)
(***************************************************************************)
Vec3(x, y, z) == <<x, y, z>>

Identity == << <<1, 0, 0, 0>>, <<0, 1, 0, 0>>, <<0, 0, 1, 0>>, <<0, 0, 0, 1>> >>

\* operator*(mat4, mat4)
MatMul(A, B) ==
    [i \in 1..4 |-> [j \in 1..4 |->
        A[i][1] * B[1][j] + A[i][2] * B[2][j] + A[i][3] * B[3][j] + A[i][4] * B[4][j]]]

\* operator*(mat4, vec4)
MatVec(A, v) ==
    [i \in 1..4 |-> A[i][1] * v[1] + A[i][2] * v[2] + A[i][3] * v[3] + A[i][4] * v[4]]

\* glm::translate(v)
glm_translate(v) ==
    << <<1, 0, 0, v[1]>>, <<0, 1, 0, v[2]>>, <<0, 0, 1, v[3]>>, <<0, 0, 0, 1>> >>

\* glm::scale(v)
glm_scale(v) ==
    << <<v[1], 0, 0, 0>>, <<0, v[2], 0, 0>>, <<0, 0, v[3], 0>>, <<0, 0, 0, 1>> >>

\* cosine and sine of a whole number of quarter turns
Cos4(q) == CASE q % 4 = 0 -> 1 [] q % 4 = 1 -> 0 [] q % 4 = 2 -> -1 [] OTHER -> 0

Sin4(q) == CASE q % 4 = 0 -> 0 [] q % 4 = 1 -> 1 [] q % 4 = 2 -> 0 [] OTHER -> -1

\* glm::rotate(angle, axis) for a unit axis (normalize(axis) = axis)
glm_rotate(q, a) ==
    LET c == Cos4(q)
        s == Sin4(q)
        t == <<(1 - c) * a[1], (1 - c) * a[2], (1 - c) * a[3]>>
    IN << <<c + t[1] * a[1],        t[2] * a[1] - s * a[3], t[3] * a[1] + s * a[2], 0>>,
          <<t[1] * a[2] + s * a[3], c + t[2] * a[2],        t[3] * a[2] - s * a[1], 0>>,
          <<t[1] * a[3] - s * a[2], t[2] * a[3] + s * a[1], c + t[3] * a[3],        0>>,
          <<0, 0, 0, 1>> >>

(***************************************************************************)
(* Floats of the bounding-box fold.  Flt(n) is the float n; FLT_MIN is the *)
(* smallest positive normalized float, above 0 and below every positive    *)
(* coordinate; FLT_MAX is above every coordinate.  The order is            *)
(* lexicographic on the pair.                                              *)
(***************************************************************************)
FltMaxWhole == 1000000

Flt(n) == <<n, 0>>

FLT_MAX == <<FltMaxWhole, 0>>

FLT_MIN == <<0, 1>>

FltLeq(a, b) == a[1] < b[1] \/ (a[1] = b[1] /\ a[2] <= b[2])

\* std::min / std::max over an initializer list
std_min(S) == CHOOSE a \in S : \A b \in S : FltLeq(a, b)

std_max(S) == CHOOSE a \in S : \A b \in S : FltLeq(b, a)

AABB(mn, mx) == [min |-> mn, max |-> mx]

(***************************************************************************)
(* Sequences                                                               *)
(***************************************************************************)
Range(s) == {s[i] : i \in DOMAIN s}

\* the orders in which an unordered container may enumerate the set S
Orders(S) ==
    {f \in [1..Cardinality(S) -> S] : \A x \in S : \E i \in DOMAIN f : f[i] = x}

(***************************************************************************)
(* Objects.  m_children, m_instances and m_mesh_nodes are std::vectors     *)
(* (sequences of addresses); a MeshNode's m_mesh and m_material_instance   *)
(* are addresses it does not own.  m_dictionary is the unique_ptr of       *)
(* Object: <<>> while null, <<d>> once allocated, d the map from keys to   *)
(* values.                                                                 *)
(***************************************************************************)
\* Object::Object: the Identifier, and no dictionary yet
Object(kind, i) == [kind |-> kind, m_id |-> i, m_dictionary |-> <<>>]

\* record r with the fields of record f added
With(r, f) == [k \in DOMAIN r \cup DOMAIN f |-> IF k \in DOMAIN f THEN f[k] ELSE r[k]]

RootNode(i) == With(Object("Root", i), [m_children |-> <<>>])

TranslateNode(i, x, y, z) ==
    With(Object("Translate", i), [m_children |-> <<>>, m_amount |-> Vec3(x, y, z)])

RotateNode(i, x, y, z, angle) ==
    With(Object("Rotate", i),
         [m_children |-> <<>>, m_axis |-> Vec3(x, y, z), m_angle |-> angle])

ScaleNode(i, factor) ==
    With(Object("Scale", i), [m_children |-> <<>>, m_factor |-> factor])

\* m_transform is not initialized by the constructor: garbage is what it holds
MeshNode(i, mesh, material_instance, garbage) ==
    With(Object("MeshNode", i),
         [m_mesh |-> mesh, m_material_instance |-> material_instance,
          m_transform |-> garbage])

Mesh(i, aabb) == With(Object("Mesh", i), [m_aabb |-> aabb])

Material(i) == With(Object("Material", i), [m_instances |-> <<>>])

MaterialInstance(i) == With(Object("MaterialInstance", i), [m_mesh_nodes |-> <<>>])

Scene(root) == [m_root_node |-> root, m_materials |-> <<>>, m_meshes |-> <<>>]

InternalKinds == {"Root", "Translate", "Rotate", "Scale"}

Addrs(h) == DOMAIN h

OfKind(h, k) == {a \in Addrs(h) : h[a].kind = k}

InternalNodes(h) == {a \in Addrs(h) : h[a].kind \in InternalKinds}

\* what an uninitialized glm::mat4 may hold
GarbageMats ==
    { << <<0, 0, 0, 0>>, <<0, 0, 0, 0>>, <<0, 0, 0, 0>>, <<0, 0, 0, 0>> >>,
      << <<7, 0, 0, 0>>, <<0, 7, 0, 0>>, <<0, 0, 7, 0>>, <<5, 5, 5, 7>> >> }

(***************************************************************************)
(* Identity allocator                                                      *)
(***************************************************************************)
\* id++ on the atomic counter
AtomicIncrement(c) == c + 1

\* the counter declared without `static': every call starts from the same value
GetUniqueID_NotStatic(c) == [id |-> c, ret |-> AtomicIncrement(c)]

\* one uninterrupted call: the increment, then the read that forms the ID
GetUniqueID(c) == [id |-> AtomicIncrement(c), ret |-> AtomicIncrement(c)]

Idle == [t \in 1..NumThreads |-> "idle"]

\* a thread performs `id++'
GetUniqueID_Increment(t) ==
    /\ pc[t] = "idle"
    /\ calls[t] < MaxCalls
    /\ id' = AtomicIncrement(id)
    /\ pc' = [pc EXCEPT ![t] = "incremented"]
    /\ UNCHANGED <<heap, scenes, last, issued, calls>>

\* the thread reads the counter again and returns ID(id)
GetUniqueID_Return(t) ==
    /\ pc[t] = "incremented"
    /\ issued' = Append(issued, id)
    /\ pc' = [pc EXCEPT ![t] = "idle"]
    /\ calls' = [calls EXCEPT ![t] = @ + 1]
    /\ last' = [op |-> "GetUniqueID", scene |-> NULL, obj |-> t, result |-> id, after |-> "-"]
    /\ UNCHANGED <<id, heap, scenes>>

(***************************************************************************)
(* Transform propagation                                                   *)
(***************************************************************************)
RECURSIVE ObjectAccess_ApplyTransform(_, _, _)
RECURSIVE ForEachChild(_, _, _)

\* for (auto& node : m_children) ObjectAccess::ApplyTransform(node, M)
ForEachChild(h, children, M) ==
    IF children = <<>> THEN h
    ELSE ForEachChild(ObjectAccess_ApplyTransform(h, Head(children), M), Tail(children), M)

RootNode_ApplyTransform(h, n, matrix) == ForEachChild(h, h[n].m_children, matrix)

\* the incoming matrix merged into the stored transform
MeshNode_ApplyTransform_Accumulate(h, n, matrix) ==
    [h EXCEPT ![n].m_transform = MatMul(@, matrix)]

\* a transform once computed is kept (a cache that is never invalidated)
MeshNode_ApplyTransform_Cached(h, n, matrix) ==
    IF h[n].m_transform \in GarbageMats THEN [h EXCEPT ![n].m_transform = matrix] ELSE h

MeshNode_ApplyTransform(h, n, matrix) == [h EXCEPT ![n].m_transform = matrix]

TranslateNode_ApplyTransform(h, n, matrix) ==
    ForEachChild(h, h[n].m_children, MatMul(matrix, glm_translate(h[n].m_amount)))

RotateNode_ApplyTransform(h, n, matrix) ==
    ForEachChild(h, h[n].m_children, MatMul(matrix, glm_rotate(h[n].m_angle, h[n].m_axis)))

\* the local matrix applied on the wrong side
ScaleNode_ApplyTransform_Premultiply(h, n, matrix) ==
    ForEachChild(h, h[n].m_children,
                 MatMul(glm_scale(Vec3(h[n].m_factor, h[n].m_factor, h[n].m_factor)), matrix))

\* the factor applied to the x axis only
ScaleNode_ApplyTransform_XOnly(h, n, matrix) ==
    ForEachChild(h, h[n].m_children, MatMul(matrix, glm_scale(Vec3(h[n].m_factor, 1, 1))))

ScaleNode_ApplyTransform(h, n, matrix) ==
    ForEachChild(h, h[n].m_children,
                 MatMul(matrix, glm_scale(Vec3(h[n].m_factor, h[n].m_factor, h[n].m_factor))))

\* node->ApplyTransform(matrix): virtual dispatch on the node's kind
ObjectAccess_ApplyTransform(h, n, matrix) ==
    CASE h[n].kind = "Root" -> RootNode_ApplyTransform(h, n, matrix)
      [] h[n].kind = "Translate" -> TranslateNode_ApplyTransform(h, n, matrix)
      [] h[n].kind = "Rotate" -> RotateNode_ApplyTransform(h, n, matrix)
      [] h[n].kind = "Scale" -> ScaleNode_ApplyTransform(h, n, matrix)
      [] h[n].kind = "MeshNode" -> MeshNode_ApplyTransform(h, n, matrix)

(***************************************************************************)
(* Queries                                                                 *)
(***************************************************************************)
RECURSIVE Flatten(_)
Flatten(ss) == IF ss = <<>> THEN <<>> ELSE Head(ss) \o Flatten(Tail(ss))

\* one manager for the whole process: the materials of every scene
GetMaterials_AllScenes(sc) == Flatten([s \in DOMAIN scenes |-> scenes[s].m_materials])

\* MaterialManager::GetMaterials: the map's elements in its iteration order
GetMaterials(sc) == sc.m_materials

GetMaterialInstances(h, material) == h[material].m_instances

GetMeshNodes(h, material_instance) == h[material_instance].m_mesh_nodes

\* the instance loop leaving after the first instance of each material
LoopMeshNodes_FirstInstanceOnly(h, sc) ==
    LET mats == GetMaterials(sc)
        first(is) == IF is = <<>> THEN <<>> ELSE <<Head(is)>>
        insts == Flatten([j \in DOMAIN mats |->
                     first(GetMaterialInstances(h, mats[j]))])
    IN Flatten([k \in DOMAIN insts |-> GetMeshNodes(h, insts[k])])

\* the three nested loops over materials, instances and mesh nodes
LoopMeshNodes(h, sc) ==
    LET mats == GetMaterials(sc)
        insts == Flatten([j \in DOMAIN mats |-> GetMaterialInstances(h, mats[j])])
    IN Flatten([k \in DOMAIN insts |-> GetMeshNodes(h, insts[k])])

\* draw_list.push_back({ mesh_node->GetMeshPtr(), mesh_node->GetTransformPtr() })
DrawRecord(h, mesh_node) == [mesh |-> h[mesh_node].m_mesh, transform |-> mesh_node]

\* the mesh-node lists moved out of the instances as they are walked
Scene_ComputeDrawList_Draining(h, sc) ==
    LET h2 == ObjectAccess_ApplyTransform(h, sc.m_root_node, Identity)
        mns == LoopMeshNodes(h2, sc)
        mats == GetMaterials(sc)
        insts == Range(Flatten([j \in DOMAIN mats |-> GetMaterialInstances(h2, mats[j])]))
    IN [heap |-> [a \in DOMAIN h2 |-> IF a \in insts THEN [h2[a] EXCEPT !.m_mesh_nodes = <<>>]
                                       ELSE h2[a]],
        result |-> [k \in DOMAIN mns |-> DrawRecord(h2, mns[k])]]

Scene_ComputeDrawList(h, sc) ==
    LET h2 == ObjectAccess_ApplyTransform(h, sc.m_root_node, Identity)
        mns == LoopMeshNodes(h2, sc)
    IN [heap |-> h2, result |-> [k \in DOMAIN mns |-> DrawRecord(h2, mns[k])]]

\* one pass of the innermost loop body of ComputeAxisAlignedBoundingBox:
\* if (auto* mesh = mesh_node->GetMeshPtr()) skips a mesh node without a mesh
ExpandByMeshNode(h, out, mesh_node) ==
    IF h[mesh_node].m_mesh = NULL THEN out
    ELSE
    LET model == h[mesh_node].m_transform
        aabb == h[h[mesh_node].m_mesh].m_aabb
        vec_a == MatVec(model, <<aabb.min[1], aabb.min[2], aabb.min[3], 1>>)
        vec_b == MatVec(model, <<aabb.max[1], aabb.max[2], aabb.max[3], 1>>)
    IN AABB([i \in 1..3 |-> std_min({out.min[i], Flt(vec_a[i]), Flt(vec_b[i])})],
            [i \in 1..3 |-> std_max({out.max[i], Flt(vec_a[i]), Flt(vec_b[i])})])

RECURSIVE FoldMeshNodes(_, _, _)
FoldMeshNodes(h, out, mns) ==
    IF mns = <<>> THEN out
    ELSE FoldMeshNodes(h, ExpandByMeshNode(h, out, Head(mns)), Tail(mns))

\* the box returned for a root without children
EmptySceneBox == AABB(<<Flt(-1), Flt(-1), Flt(-1)>>, <<Flt(1), Flt(1), Flt(1)>>)

\* auto out = AABB{ { FLT_MAX, FLT_MAX, FLT_MAX }, { FLT_MIN, FLT_MIN, FLT_MIN } }
InitialBox == AABB(<<FLT_MAX, FLT_MAX, FLT_MAX>>, <<FLT_MIN, FLT_MIN, FLT_MIN>>)

\* the early return taken for a scene without materials instead
Scene_ComputeAxisAlignedBoundingBox_NoMaterials(h, sc) ==
    IF GetMaterials(sc) = <<>>
    THEN [heap |-> h, result |-> EmptySceneBox]
    ELSE LET h2 == ObjectAccess_ApplyTransform(h, sc.m_root_node, Identity)
         IN [heap |-> h2, result |-> FoldMeshNodes(h2, InitialBox, LoopMeshNodes(h2, sc))]

Scene_ComputeAxisAlignedBoundingBox(h, sc) ==
    IF h[sc.m_root_node].m_children = <<>>
    THEN [heap |-> h, result |-> EmptySceneBox]
    ELSE LET h2 == ObjectAccess_ApplyTransform(h, sc.m_root_node, Identity)
         IN [heap |-> h2, result |-> FoldMeshNodes(h2, InitialBox, LoopMeshNodes(h2, sc))]

(***************************************************************************)
(* Reflection: GetField returns a handle (ValueRef) to a member, or the    *)
(* empty handle.  A handle is the object it points into and the member.    *)
(***************************************************************************)
ValueRef(obj, member) == [obj |-> obj, member |-> member]

EmptyValueRef == ValueRef(NULL, "")

RootNode_GetField(h, n, field_name) == EmptyValueRef

MeshNode_GetField(h, n, field_name) ==
    CASE field_name = "mesh" -> ValueRef(h[n].m_mesh, "*")
      [] field_name = "material.instance" -> ValueRef(h[n].m_material_instance, "*")
      [] OTHER -> EmptyValueRef

TranslateNode_GetField(h, n, field_name) ==
    IF field_name = "translate.amount" THEN ValueRef(n, "m_amount") ELSE EmptyValueRef

\* every name but "rotate.axis" answered with the angle
RotateNode_GetField_AngleByDefault(h, n, field_name) ==
    IF field_name = "rotate.axis" THEN ValueRef(n, "m_axis") ELSE ValueRef(n, "m_angle")

RotateNode_GetField(h, n, field_name) ==
    CASE field_name = "rotate.axis" -> ValueRef(n, "m_axis")
      [] field_name = "rotate.angle" -> ValueRef(n, "m_angle")
      [] OTHER -> EmptyValueRef

ScaleNode_GetField(h, n, field_name) ==
    IF field_name = "scale.factor" THEN ValueRef(n, "m_factor") ELSE EmptyValueRef

\* node->GetField(name): virtual dispatch on the node's kind
Node_GetField(h, n, field_name) ==
    CASE h[n].kind = "Root" -> RootNode_GetField(h, n, field_name)
      [] h[n].kind = "Translate" -> TranslateNode_GetField(h, n, field_name)
      [] h[n].kind = "Rotate" -> RotateNode_GetField(h, n, field_name)
      [] h[n].kind = "Scale" -> ScaleNode_GetField(h, n, field_name)
      [] h[n].kind = "MeshNode" -> MeshNode_GetField(h, n, field_name)

\* the index type asked for under the key the export writes, "index.class"
Mesh_GetField_IndexClass(h, n, field_name) ==
    CASE field_name = "aabb.min" -> ValueRef(n, "m_aabb.min")
      [] field_name = "aabb.max" -> ValueRef(n, "m_aabb.max")
      [] field_name = "vertex.attributes" -> ValueRef(n, "m_vertices.VertexAttributes")
      [] field_name = "vertex.size" -> ValueRef(n, "m_vertices.VertexSize")
      [] field_name = "vertex.count" -> ValueRef(n, "m_vertices.Count")
      [] field_name = "index.class" -> ValueRef(n, "m_indices.IndexType")
      [] field_name = "index.size" -> ValueRef(n, "m_indices.IndexSize")
      [] field_name = "index.count" -> ValueRef(n, "m_indices.Count")
      [] OTHER -> EmptyValueRef

\* Mesh::GetField: handles into the bounding box and the geometry buffers
Mesh_GetField(h, n, field_name) ==
    CASE field_name = "aabb.min" -> ValueRef(n, "m_aabb.min")
      [] field_name = "aabb.max" -> ValueRef(n, "m_aabb.max")
      [] field_name = "vertex.attributes" -> ValueRef(n, "m_vertices.VertexAttributes")
      [] field_name = "vertex.size" -> ValueRef(n, "m_vertices.VertexSize")
      [] field_name = "vertex.count" -> ValueRef(n, "m_vertices.Count")
      [] field_name = "index.type" -> ValueRef(n, "m_indices.IndexType")
      [] field_name = "index.size" -> ValueRef(n, "m_indices.IndexSize")
      [] field_name = "index.count" -> ValueRef(n, "m_indices.Count")
      [] OTHER -> EmptyValueRef

\* GetField of a node or of a mesh
Object_GetField(h, o, field_name) ==
    IF h[o].kind = "Mesh" THEN Mesh_GetField(h, o, field_name)
    ELSE Node_GetField(h, o, field_name)

(***************************************************************************)
(* Metadata: the static table of each kind.                                *)
(***************************************************************************)
Field(key, label, value_type, is_editable) ==
    [key |-> key, label |-> label, value_type |-> value_type, is_editable |-> is_editable]

Metadata(object_class, object_label, fields) ==
    [object_class |-> object_class, object_label |-> object_label, fields |-> fields]

Mesh_metadata ==
    Metadata("object.mesh", "Mesh",
             << Field("aabb.min", "Min", "Float3", FALSE),
                Field("aabb.max", "Max", "Float3", FALSE),
                Field("vertex.attributes", "Vertex Attributes", "String", FALSE),
                Field("vertex.size", "Vertex Size", "Int", FALSE),
                Field("vertex.count", "Vertex Count", "Int", FALSE),
                Field("index.type", "Index Type", "String", FALSE),
                Field("index.size", "Index Size", "Int", FALSE),
                Field("index.count", "Index Count", "Int", FALSE) >>)

RootNode_metadata == Metadata("root.node", "Root", <<>>)

MeshNode_metadata ==
    Metadata("mesh.node", "Mesh",
             << Field("mesh", "Mesh", "Reference", FALSE),
                Field("material.instance", "Material Instance", "Reference", FALSE) >>)

TranslateNode_metadata ==
    Metadata("translate.node", "Translate",
             << Field("translate.amount", "Amount", "Float3", TRUE) >>)

RotateNode_metadata ==
    Metadata("rotate.node", "Rotate",
             << Field("rotate.axis", "Axis", "Float3", TRUE),
                Field("rotate.angle", "Angle", "Float", TRUE) >>)

ScaleNode_metadata ==
    Metadata("scale.node", "Scale", << Field("scale.factor", "Factor", "Float", TRUE) >>)

\* the tables of Material and MaterialInstance: their class tags
Material_metadata == Metadata("material", "Material", <<>>)

MaterialInstance_metadata == Metadata("material.instance", "Material Instance", <<>>)

\* T::metadata for the class T of an object of the given kind
metadata(kind) ==
    CASE kind = "Root" -> RootNode_metadata
      [] kind = "Translate" -> TranslateNode_metadata
      [] kind = "Rotate" -> RotateNode_metadata
      [] kind = "Scale" -> ScaleNode_metadata
      [] kind = "MeshNode" -> MeshNode_metadata
      [] kind = "Mesh" -> Mesh_metadata
      [] kind = "Material" -> Material_metadata
      [] kind = "MaterialInstance" -> MaterialInstance_metadata

(***************************************************************************)
(* Property dictionary of an object                                        *)
(***************************************************************************)
\* new Dictionary: the empty map
NewDictionary == [k \in {} |-> ""]

\* Dictionary::insert: an existing key keeps its value
insert_or_assign_KeepOld(d, key, value) ==
    [k \in DOMAIN d \cup {key} |-> IF k \in DOMAIN d THEN d[k] ELSE value]

\* Dictionary::insert_or_assign
insert_or_assign(d, key, value) ==
    [k \in DOMAIN d \cup {key} |-> IF k = key THEN value ELSE d[k]]

\* the whole dictionary cleared
erase_All(d, key) == NewDictionary

\* Dictionary::erase
erase(d, key) == [k \in DOMAIN d \ {key} |-> d[k]]

Object_HasProperties(h, o) ==
    Len(h[o].m_dictionary) > 0 /\ DOMAIN h[o].m_dictionary[1] # {}

Object_SetProperty(h, o, key, value) ==
    LET d == IF Len(h[o].m_dictionary) = 0 THEN NewDictionary ELSE h[o].m_dictionary[1]
    IN [h EXCEPT ![o].m_dictionary = <<insert_or_assign(d, key, value)>>]

\* the dictionary allocated where there is none
Object_RemoveProperty_Allocating(h, o, key) ==
    LET d == IF Len(h[o].m_dictionary) = 0 THEN NewDictionary ELSE h[o].m_dictionary[1]
    IN [h EXCEPT ![o].m_dictionary = <<erase(d, key)>>]

Object_RemoveProperty(h, o, key) ==
    IF Len(h[o].m_dictionary) > 0
    THEN [h EXCEPT ![o].m_dictionary = <<erase(h[o].m_dictionary[1], key)>>]
    ELSE h

(***************************************************************************)
(* Structured export.  A json object is a function from its keys, a json   *)
(* array a sequence.  The vertex and index buffers of a mesh are not part  *)
(* of the model and neither are their entries under "object.values".       *)
(***************************************************************************)
\* to_json(json, DictionaryValues): json[key] = value for every entry
DictionaryValues(d) == [k \in DOMAIN d |-> d[k]]

\* ObjectAccess::ThisToJson: class tag, id and, if any, the properties
ThisToJson(h, o) ==
    ("object.class" :> metadata(h[o].kind).object_class)
        @@ ("object.id" :> h[o].m_id)
        @@ (IF Object_HasProperties(h, o)
            THEN "object.properties" :> DictionaryValues(h[o].m_dictionary[1])
            ELSE NewDictionary)

RECURSIVE Node_ToJson(_, _)

\* the children written last to first
ChildrenToJson_Reversed(h, children) ==
    "owns" :> [i \in DOMAIN children |-> Node_ToJson(h, children[Len(children) + 1 - i])]

\* ObjectAccess::ChildrenToJson over the child list of a node
ChildrenToJson(h, children) ==
    "owns" :> [i \in DOMAIN children |-> Node_ToJson(h, children[i])]

RootNode_ToJson(h, n) == ThisToJson(h, n) @@ ChildrenToJson(h, h[n].m_children)

MeshNode_ToJson(h, n) ==
    ThisToJson(h, n)
        @@ ("object.refs" :> (("material.instance" :> h[h[n].m_material_instance].m_id)
                                 @@ ("mesh" :> h[h[n].m_mesh].m_id)))

TranslateNode_ToJson(h, n) ==
    ThisToJson(h, n) @@ ChildrenToJson(h, h[n].m_children)
        @@ ("object.values" :> ("translate" :> h[n].m_amount))

RotateNode_ToJson(h, n) ==
    ThisToJson(h, n) @@ ChildrenToJson(h, h[n].m_children)
        @@ ("object.values" :> (("rotate.axis" :> h[n].m_axis)
                                   @@ ("rotate.angle" :> h[n].m_angle)))

ScaleNode_ToJson(h, n) ==
    ThisToJson(h, n) @@ ChildrenToJson(h, h[n].m_children)
        @@ ("object.values" :> ("scale" :> h[n].m_factor))

\* node->ToJson(): virtual dispatch on the node's kind
Node_ToJson(h, n) ==
    CASE h[n].kind = "Root" -> RootNode_ToJson(h, n)
      [] h[n].kind = "Translate" -> TranslateNode_ToJson(h, n)
      [] h[n].kind = "Rotate" -> RotateNode_ToJson(h, n)
      [] h[n].kind = "Scale" -> ScaleNode_ToJson(h, n)
      [] h[n].kind = "MeshNode" -> MeshNode_ToJson(h, n)

\* json["object.refs"] = m_mesh_nodes: the ids of the registered mesh nodes
MaterialInstance_ToJson(h, mi) ==
    ThisToJson(h, mi)
        @@ ("object.refs" :> [i \in DOMAIN h[mi].m_mesh_nodes |-> h[h[mi].m_mesh_nodes[i]].m_id])

Material_ToJson(h, m) ==
    ThisToJson(h, m)
        @@ ("owns" :> [i \in DOMAIN h[m].m_instances |->
                          MaterialInstance_ToJson(h, h[m].m_instances[i])])

Mesh_ToJson(h, m) ==
    ThisToJson(h, m)
        @@ ("object.values" :>
               ("aabb" :> (("aabb.min" :> h[m].m_aabb.min) @@ ("aabb.max" :> h[m].m_aabb.max))))

\* only the materials some mesh node is registered with
MaterialManager_ToJson_UsedOnly(h, sc) ==
    LET used == SelectSeq(sc.m_materials,
                          LAMBDA m : \E i \in DOMAIN h[m].m_instances :
                                         h[h[m].m_instances[i]].m_mesh_nodes # <<>>)
    IN [i \in DOMAIN used |-> Material_ToJson(h, used[i])]

\* MaterialManager::ToJson: one entry per element of the map
MaterialManager_ToJson(h, sc) ==
    [i \in DOMAIN sc.m_materials |-> Material_ToJson(h, sc.m_materials[i])]

\* MeshManager::ToJson: one entry per element of the map
MeshManager_ToJson(h, sc) ==
    [i \in DOMAIN sc.m_meshes |-> Mesh_ToJson(h, sc.m_meshes[i])]

Scene_ToJson(h, sc) ==
    ("scene" :> Node_ToJson(h, sc.m_root_node))
        @@ ("materials" :> MaterialManager_ToJson(h, sc))
        @@ ("meshes" :> MeshManager_ToJson(h, sc))

(***************************************************************************)
(* The OBJ loader's mesh generation.  An index of the parsed file is three *)
(* ints, -1 where the face gives no such component.  A uint32_t is kept as *)
(* its top bit and its low 31 bits.                                        *)
(***************************************************************************)
Int31Max == 2147483647

\* static_cast<uint32_t>(int): the value modulo 2^32
ToUint32(x) == IF x >= 0 THEN <<0, x>> ELSE <<1, (x + Int31Max) + 1>>

\* Index::Index(tinyobj::index_t)
Index(idx) ==
    [vertex |-> ToUint32(idx.vertex_index), normal |-> ToUint32(idx.normal_index),
     texcoord |-> ToUint32(idx.texcoord_index)]

\* two indices compared by vertex and normal alone
Index_Equal_VertexNormal(lhs, rhs) == lhs.vertex = rhs.vertex /\ lhs.normal = rhs.normal

\* operator==(const Index&, const Index&)
Index_Equal(lhs, rhs) ==
    lhs.vertex = rhs.vertex /\ lhs.normal = rhs.normal /\ lhs.texcoord = rhs.texcoord

\* index_map.find(index): the keys of the map equal to index (none: end())
find(index_map, index) == {k \in DOMAIN index_map : Index_Equal(k, index)}

VertexPN(position, normal) == [position |-> position, normal |-> normal]

\* attribute[3 * u + k]: past the end of the vector the read is undefined
InRange(attribute, u, k) == u[1] = 0 /\ 3 * u[2] + k + 1 \in DOMAIN attribute

ReadAttribute(attribute, u, k, garbage) ==
    IF InRange(attribute, u, k) THEN attribute[3 * u[2] + k + 1] ELSE garbage

\* the locals of GenerateMeshPN before the loops
GenerateMeshPN_Locals ==
    [index_map |-> [k \in {} |-> 0], vertices |-> <<>>, indices |-> <<>>,
     aabb |-> AABB(<<FLT_MAX, FLT_MAX, FLT_MAX>>, <<FLT_MIN, FLT_MIN, FLT_MIN>>),
     fault |-> FALSE]

\* the body of the inner loop for mesh.indices[i + j]
GenerateMeshPN_Body(st, attributes, raw, garbage) ==
    LET index == Index(raw)
        it == find(st.index_map, index)
    IN IF it # {}
       THEN [st EXCEPT !.indices = Append(@, st.index_map[CHOOSE k \in it : TRUE])]
       ELSE LET position == [k \in 1..3 |->
                                ReadAttribute(attributes.vertices, index.vertex, k - 1, garbage)]
                normal == [k \in 1..3 |->
                              ReadAttribute(attributes.normals, index.normal, k - 1, garbage)]
                vertices == Append(st.vertices, VertexPN(position, normal))
                idx == Len(vertices) - 1
            IN [index_map |-> (index :> idx) @@ st.index_map,
                vertices |-> vertices,
                indices |-> Append(st.indices, idx),
                aabb |-> AABB([i \in 1..3 |-> std_min({st.aabb.min[i], Flt(position[i])})],
                              [i \in 1..3 |-> std_max({st.aabb.max[i], Flt(position[i])})]),
                fault |-> \/ st.fault
                          \/ ~InRange(attributes.vertices, index.vertex, 2)
                          \/ ~InRange(attributes.normals, index.normal, 2)]

\* the two loops: every index of the mesh in order
RECURSIVE GenerateMeshPN_Loops(_, _, _, _)
GenerateMeshPN_Loops(st, attributes, mesh_indices, garbage) ==
    IF mesh_indices = <<>> THEN st
    ELSE GenerateMeshPN_Loops(GenerateMeshPN_Body(st, attributes, Head(mesh_indices), garbage),
                              attributes, Tail(mesh_indices), garbage)

(***************************************************************************)
(* Operations.  Every operation records itself in `last'.                  *)
(***************************************************************************)
Queries == {"ComputeDrawList", "ComputeAxisAlignedBoundingBox"}

\* `after' tells of a query whether it follows a query or a write to a field,
\* and of a RemoveProperty whether it follows a SetProperty of the same key on
\* the same object
Did(op, s, obj, result) ==
    [op |-> op, scene |-> s, obj |-> obj, result |-> result,
     after |-> CASE op \in Queries /\ last.op \in Queries -> "query"
                 [] op \in Queries /\ last.op = "WriteField" -> "WriteField"
                 [] op = "RemoveProperty" /\ last.op = "SetProperty" /\ last.obj = obj
                        /\ last.result.key = result.key -> "SetProperty"
                 [] OTHER -> "-"]

\* Scene::Scene
Scene_Scene ==
    LET g == GetUniqueID(id)
        a == Len(heap) + 1
    IN /\ id' = g.id
       /\ issued' = Append(issued, g.ret)
       /\ heap' = Append(heap, RootNode(g.ret))
       /\ scenes' = Append(scenes, Scene(a))
       /\ last' = Did("Scene", Len(scenes) + 1, a, a)
       /\ UNCHANGED <<pc, calls>>

\* Scene::CreateMesh -> MeshManager::CreateMesh
Scene_CreateMesh(s, aabb) ==
    LET g == GetUniqueID(id)
        a == Len(heap) + 1
    IN /\ s \in DOMAIN scenes
       /\ id' = g.id
       /\ issued' = Append(issued, g.ret)
       /\ heap' = Append(heap, Mesh(g.ret, aabb))
       /\ \E order \in Orders(Range(scenes[s].m_meshes) \cup {a}) :
              scenes' = [scenes EXCEPT ![s].m_meshes = order]
       /\ last' = Did("CreateMesh", s, a, a)
       /\ UNCHANGED <<pc, calls>>

\* Scene::CreateMaterial -> MaterialManager::CreateMaterial
Scene_CreateMaterial(s) ==
    LET g == GetUniqueID(id)
        a == Len(heap) + 1
    IN /\ s \in DOMAIN scenes
       /\ id' = g.id
       /\ issued' = Append(issued, g.ret)
       /\ heap' = Append(heap, Material(g.ret))
       /\ \E order \in Orders(Range(scenes[s].m_materials) \cup {a}) :
              scenes' = [scenes EXCEPT ![s].m_materials = order]
       /\ last' = Did("CreateMaterial", s, a, a)
       /\ UNCHANGED <<pc, calls>>

\* Material::CreateMaterialInstance
Material_CreateMaterialInstance(m) ==
    LET g == GetUniqueID(id)
        a == Len(heap) + 1
    IN /\ m \in OfKind(heap, "Material")
       /\ id' = g.id
       /\ issued' = Append(issued, g.ret)
       /\ heap' = Append([heap EXCEPT ![m].m_instances = Append(@, a)],
                         MaterialInstance(g.ret))
       /\ last' = Did("CreateMaterialInstance", NULL, a, a)
       /\ UNCHANGED <<scenes, pc, calls>>

\* the new node put in front of the children
PushChild_Front(h, p, node) == Append([h EXCEPT ![p].m_children = <<Len(h) + 1>> \o @], node)

\* the new node put on the child list of the first root as well
PushChild_Shared(h, p, node) ==
    Append([h EXCEPT ![p].m_children = Append(@, Len(h) + 1),
                     ![1].m_children = IF p = 1 THEN @ ELSE Append(@, Len(h) + 1)], node)

\* m_children.push_back(node) on parent p, the new node at address a
PushChild(h, p, node) == Append([h EXCEPT ![p].m_children = Append(@, Len(h) + 1)], node)

InternalNode_AddTranslateNode(p, x, y, z) ==
    LET g == GetUniqueID(id)
        a == Len(heap) + 1
    IN /\ p \in InternalNodes(heap)
       /\ id' = g.id
       /\ issued' = Append(issued, g.ret)
       /\ heap' = PushChild(heap, p, TranslateNode(g.ret, x, y, z))
       /\ last' = Did("AddTranslateNode", NULL, p, a)
       /\ UNCHANGED <<scenes, pc, calls>>

InternalNode_AddRotateNode(p, x, y, z, angle) ==
    LET g == GetUniqueID(id)
        a == Len(heap) + 1
    IN /\ p \in InternalNodes(heap)
       /\ id' = g.id
       /\ issued' = Append(issued, g.ret)
       /\ heap' = PushChild(heap, p, RotateNode(g.ret, x, y, z, angle))
       /\ last' = Did("AddRotateNode", NULL, p, a)
       /\ UNCHANGED <<scenes, pc, calls>>

InternalNode_AddScaleNode(p, factor) ==
    LET g == GetUniqueID(id)
        a == Len(heap) + 1
    IN /\ p \in InternalNodes(heap)
       /\ id' = g.id
       /\ issued' = Append(issued, g.ret)
       /\ heap' = PushChild(heap, p, ScaleNode(g.ret, factor))
       /\ last' = Did("AddScaleNode", NULL, p, a)
       /\ UNCHANGED <<scenes, pc, calls>>

\* the back-reference put in front of the list
MaterialInstance_AddMeshNodePtr_Front(h, material_instance, mesh_node) ==
    [h EXCEPT ![material_instance].m_mesh_nodes = <<mesh_node>> \o @]

\* MaterialInstance::AddMeshNodePtr, reached from the MeshNode constructor
MaterialInstance_AddMeshNodePtr(h, material_instance, mesh_node) ==
    [h EXCEPT ![material_instance].m_mesh_nodes = Append(@, mesh_node)]

\* the process is gone: no thread runs any more
Aborted == [t \in 1..NumThreads |-> "aborted"]

Alive == pc # Aborted

\* assert(e) of <cassert>: evaluated unless the build defines NDEBUG
assert(e, ndebug) == ndebug \/ e

\* a failed assertion at the top of AddMeshNode aborts the process
AssertionFailure(p) ==
    /\ pc' = Aborted
    /\ last' = Did("AddMeshNode", NULL, p, NULL)
    /\ UNCHANGED <<id, heap, scenes, issued, calls>>

\* with the assertions compiled out a null material instance is dereferenced
\* by the MeshNode constructor, after GetUniqueID() has been evaluated:
\* the process crashes there, or the write through the null pointer goes
\* unnoticed and the construction completes
NullDereference(p, mesh, garbage) ==
    LET g == GetUniqueID(id)
        a == Len(heap) + 1
    IN /\ id' = g.id
       /\ issued' = Append(issued, g.ret)
       /\ \/ /\ pc' = Aborted
             /\ last' = Did("AddMeshNode", NULL, p, NULL)
             /\ UNCHANGED <<heap, scenes, calls>>
          \/ /\ heap' = PushChild(heap, p, MeshNode(g.ret, mesh, NULL, garbage))
             /\ last' = Did("AddMeshNode", NULL, p, a)
             /\ UNCHANGED <<scenes, pc, calls>>

\* InternalNode::AddMeshNode; the MeshNode constructor registers the node with
\* its material instance before the node is pushed onto the child list.
\* The build may or may not define NDEBUG; with both pointers valid the two
\* builds do the same.
InternalNode_AddMeshNode(p, mesh, material, garbage) ==
    LET g == GetUniqueID(id)
        a == Len(heap) + 1
        valid == mesh # NULL /\ material # NULL
    IN /\ p \in InternalNodes(heap)
       /\ mesh \in OfKind(heap, "Mesh") \cup {NULL}
       /\ material \in OfKind(heap, "MaterialInstance") \cup {NULL}
       /\ \E ndebug \in (IF valid THEN {FALSE} ELSE BOOLEAN) :
              IF ~assert(valid, ndebug) THEN AssertionFailure(p)
              ELSE IF material = NULL THEN NullDereference(p, mesh, garbage)
              ELSE /\ id' = g.id
                   /\ issued' = Append(issued, g.ret)
                   /\ heap' = PushChild(MaterialInstance_AddMeshNodePtr(heap, material, a), p,
                                        MeshNode(g.ret, mesh, material, garbage))
                   /\ last' = Did("AddMeshNode", NULL, p, a)
                   /\ UNCHANGED <<scenes, pc, calls>>

\* the last operation was a query that traversed the tree
Refreshed ==
    /\ last.op \in Queries
    /\ last.op = "ComputeAxisAlignedBoundingBox" =>
           heap[scenes[last.scene].m_root_node].m_children # <<>>

\* the host writes `value' through the handle GetField(field_name) of node n;
\* the record of the write keeps the old value and whether the stored
\* transforms were current when it happened
WriteField(n, field_name, value) ==
    LET ref == Node_GetField(heap, n, field_name)
    IN /\ n \in Addrs(heap)
       /\ heap[n].kind \in {"Translate", "Rotate", "Scale"}
       /\ ref # EmptyValueRef
       /\ heap[ref.obj][ref.member] # value
       /\ heap' = [heap EXCEPT ![ref.obj][ref.member] = value]
       /\ last' = Did("WriteField", NULL, n,
                       [member |-> ref.member, old |-> heap[ref.obj][ref.member],
                        fresh |-> Refreshed])
       /\ UNCHANGED <<id, scenes, issued, pc, calls>>

ComputeDrawList(s) ==
    LET r == Scene_ComputeDrawList(heap, scenes[s])
    IN /\ s \in DOMAIN scenes
       /\ heap' = r.heap
       /\ last' = Did("ComputeDrawList", s, NULL, r.result)
       /\ UNCHANGED <<id, scenes, issued, pc, calls>>

ComputeAxisAlignedBoundingBox(s) ==
    LET r == Scene_ComputeAxisAlignedBoundingBox(heap, scenes[s])
    IN /\ s \in DOMAIN scenes
       /\ heap' = r.heap
       /\ last' = Did("ComputeAxisAlignedBoundingBox", s, NULL, r.result)
       /\ UNCHANGED <<id, scenes, issued, pc, calls>>

\* GenerateMeshPN of the loader on a mesh of whole triangles.  A read past
\* the end of an attribute vector crashes the process, or yields whatever
\* is there and the generation completes.
GenerateMeshPN(s, attributes, mesh_indices, garbage) ==
    LET num_indices == Len(mesh_indices)
        st == GenerateMeshPN_Loops(GenerateMeshPN_Locals, attributes, mesh_indices, garbage)
        g == GetUniqueID(id)
        a == Len(heap) + 1
    IN /\ s \in DOMAIN scenes
       /\ num_indices % 3 = 0
       /\ \E crash \in (IF st.fault THEN BOOLEAN ELSE {FALSE}) :
              IF crash
              THEN /\ pc' = Aborted
                   /\ last' = Did("GenerateMeshPN", s, NULL, NULL)
                   /\ UNCHANGED <<id, heap, scenes, issued, calls>>
              ELSE /\ id' = g.id
                   /\ issued' = Append(issued, g.ret)
                   /\ heap' = Append(heap, Mesh(g.ret, st.aabb))
                   /\ \E order \in Orders(Range(scenes[s].m_meshes) \cup {a}) :
                          scenes' = [scenes EXCEPT ![s].m_meshes = order]
                   /\ last' = Did("GenerateMeshPN", s, a,
                                  [mesh_indices |-> mesh_indices, vertices |-> st.vertices,
                                   indices |-> st.indices])
                   /\ UNCHANGED <<pc, calls>>

\* Object::SetProperty called by the host on object o
SetProperty(o, key, value) ==
    /\ o \in Addrs(heap)
    /\ heap' = Object_SetProperty(heap, o, key, value)
    /\ last' = Did("SetProperty", NULL, o, [key |-> key, value |-> value])
    /\ UNCHANGED <<id, scenes, issued, pc, calls>>

\* Object::RemoveProperty called by the host on object o
RemoveProperty(o, key) ==
    /\ o \in Addrs(heap)
    /\ heap' = Object_RemoveProperty(heap, o, key)
    /\ last' = Did("RemoveProperty", NULL, o, [key |-> key])
    /\ UNCHANGED <<id, scenes, issued, pc, calls>>

\* Object::HasProperties called by the host on object o
HasProperties(o) ==
    /\ o \in Addrs(heap)
    /\ last' = Did("HasProperties", NULL, o, Object_HasProperties(heap, o))
    /\ UNCHANGED <<id, heap, scenes, issued, pc, calls>>

\* GetField called by the host on a node or a mesh; the handle is not written
GetField(o, field_name) ==
    /\ o \in Addrs(heap)
    /\ heap[o].kind \in InternalKinds \cup {"MeshNode", "Mesh"}
    /\ last' = Did("GetField", NULL, o,
                   [field_name |-> field_name, ref |-> Object_GetField(heap, o, field_name)])
    /\ UNCHANGED <<id, heap, scenes, issued, pc, calls>>

\* Scene::ToJson
ToJson(s) ==
    /\ s \in DOMAIN scenes
    /\ last' = Did("ToJson", s, NULL, Scene_ToJson(heap, scenes[s]))
    /\ UNCHANGED <<id, heap, scenes, issued, pc, calls>>

(***************************************************************************)
(* Inputs                                                                  *)
(***************************************************************************)
UnitBox == AABB(Vec3(-1, -1, -1), Vec3(1, 1, 1))

NegativeBox == AABB(Vec3(-3, -3, -3), Vec3(-2, -2, -2))

Boxes == {UnitBox, NegativeBox}

Amounts == {Vec3(0, 0, 0), Vec3(1, 2, 3)}

ZAxis == Vec3(0, 0, 1)

Angles == {0, 1}

Factors == {1, 2}

\* the values a host may write through a handle to the named member
ValuesOf(field_name) ==
    CASE field_name = "translate.amount" -> Amounts
      [] field_name = "rotate.axis" -> {ZAxis, Vec3(1, 0, 0)}
      [] field_name = "rotate.angle" -> Angles
      [] field_name = "scale.factor" -> Factors

FieldNames == {"translate.amount", "rotate.axis", "rotate.angle", "scale.factor"}

\* the names a host may ask GetField for: every key of every table, a key in
\* another spelling, an unknown name and the empty name
AskedNames ==
    {"aabb.min", "aabb.max", "vertex.attributes", "vertex.size", "vertex.count",
     "index.type", "index.size", "index.count", "mesh", "material.instance",
     "translate.amount", "rotate.axis", "rotate.angle", "scale.factor",
     "Translate.Amount", "scale", "no.such.field", ""}

\* property keys and values (an int, a string)
Keys == {"author", "lod"}

Values == {"int:1", "string:x"}

\* the tree nodes (all but roots) and the objects of each kind
TreeNodes(h) == {a \in Addrs(h) : h[a].kind \in {"Translate", "Rotate", "Scale", "MeshNode"}}

Count(h, k) == Cardinality(OfKind(h, k))

Init ==
    /\ id = 0
    /\ heap = <<>>
    /\ scenes = <<>>
    /\ last = [op |-> "none", scene |-> NULL, obj |-> NULL, result |-> NULL, after |-> "-"]
    /\ issued = <<>>
    /\ pc = Idle
    /\ calls = [t \in 1..NumThreads |-> 0]

(***************************************************************************)
(* Spec: any sequence of constructions and queries by the scene-owner      *)
(* thread, over up to MaxScenes scenes and MaxObjs objects in all.         *)
(***************************************************************************)
NewScene == id < MaxObjs /\ Len(scenes) < MaxScenes /\ Scene_Scene

CreateMesh == id < MaxObjs /\ \E s \in DOMAIN scenes : Scene_CreateMesh(s, UnitBox)

CreateMaterial == id < MaxObjs /\ \E s \in DOMAIN scenes : Scene_CreateMaterial(s)

CreateMaterialInstance ==
    id < MaxObjs /\ \E m \in Addrs(heap) : Material_CreateMaterialInstance(m)

AddTranslateNode ==
    id < MaxObjs /\ \E p \in Addrs(heap) : InternalNode_AddTranslateNode(p, 1, 2, 3)

AddRotateNode ==
    id < MaxObjs /\ \E p \in Addrs(heap) : InternalNode_AddRotateNode(p, 0, 0, 1, 1)

AddScaleNode == id < MaxObjs /\ \E p \in Addrs(heap) : InternalNode_AddScaleNode(p, 2)

AddMeshNode ==
    id < MaxObjs /\ \E p, mesh, mi \in Addrs(heap), g \in GarbageMats :
        InternalNode_AddMeshNode(p, mesh, mi, g)

QueryDrawList == \E s \in DOMAIN scenes : ComputeDrawList(s)

QueryBoundingBox == \E s \in DOMAIN scenes : ComputeAxisAlignedBoundingBox(s)

QueryToJson == \E s \in DOMAIN scenes : ToJson(s)

Next ==
    \/ NewScene
    \/ CreateMesh
    \/ CreateMaterial
    \/ CreateMaterialInstance
    \/ AddTranslateNode
    \/ AddRotateNode
    \/ AddScaleNode
    \/ AddMeshNode
    \/ QueryDrawList
    \/ QueryBoundingBox
    \/ QueryToJson

Spec == Init /\ [][Next]_vars

(***************************************************************************)
(* SpecThreads: NumThreads threads call GetUniqueID, MaxCalls times each,  *)
(* their steps interleaved.                                                *)
(***************************************************************************)
ThreadIncrement == \E t \in 1..NumThreads : GetUniqueID_Increment(t)

ThreadReturn == \E t \in 1..NumThreads : GetUniqueID_Return(t)

NextThreads == ThreadIncrement \/ ThreadReturn

SpecThreads == Init /\ [][NextThreads]_vars

(***************************************************************************)
(* SpecTree: one scene with one mesh, one material and one instance; the   *)
(* host builds a tree of up to MaxTreeNodes nodes, edits parameters        *)
(* through GetField handles and queries.                                   *)
(***************************************************************************)
TreeScene == scenes = <<>> /\ Scene_Scene

TreeMesh == Len(heap) = 1 /\ \E b \in Boxes : Scene_CreateMesh(1, b)

TreeMaterial == Len(heap) = 2 /\ Scene_CreateMaterial(1)

TreeInstance == Len(heap) = 3 /\ Material_CreateMaterialInstance(3)

TreeOpen == Len(heap) >= 4 /\ Cardinality(TreeNodes(heap)) < MaxTreeNodes

TreeTranslate ==
    TreeOpen /\ \E p \in Addrs(heap), v \in Amounts :
        InternalNode_AddTranslateNode(p, v[1], v[2], v[3])

TreeRotate ==
    TreeOpen /\ \E p \in Addrs(heap), q \in Angles :
        InternalNode_AddRotateNode(p, ZAxis[1], ZAxis[2], ZAxis[3], q)

TreeScale == TreeOpen /\ \E p \in Addrs(heap), f \in Factors : InternalNode_AddScaleNode(p, f)

TreeMeshNode ==
    TreeOpen /\ \E p \in Addrs(heap), g \in GarbageMats : InternalNode_AddMeshNode(p, 2, 4, g)

TreeEdit ==
    \E n \in Addrs(heap), f \in FieldNames : \E v \in ValuesOf(f) : WriteField(n, f, v)

NextTree ==
    \/ TreeScene
    \/ TreeMesh
    \/ TreeMaterial
    \/ TreeInstance
    \/ TreeTranslate
    \/ TreeRotate
    \/ TreeScale
    \/ TreeMeshNode
    \/ TreeEdit
    \/ QueryDrawList
    \/ QueryBoundingBox

SpecTree == Init /\ [][NextTree]_vars

(***************************************************************************)
(* SpecDraw: up to MaxScenes scenes sharing one pool of materials,         *)
(* instances and meshes; mesh nodes hang directly under a root.            *)
(***************************************************************************)
DrawScene == Len(scenes) < MaxScenes /\ Count(heap, "Material") = 0 /\ Scene_Scene

DrawMesh == scenes # <<>> /\ Count(heap, "Mesh") = 0 /\ Scene_CreateMesh(1, UnitBox)

DrawMaterial ==
    /\ Count(heap, "Mesh") = 1
    /\ Count(heap, "Material") < MaxDrawMaterials
    /\ \E s \in DOMAIN scenes : Scene_CreateMaterial(s)

DrawInstance ==
    /\ Count(heap, "MaterialInstance") < MaxDrawInstances
    /\ \E m \in Addrs(heap) : Material_CreateMaterialInstance(m)

DrawMeshNode ==
    /\ Count(heap, "MeshNode") < MaxDrawNodes
    /\ \E p \in OfKind(heap, "Root"), mesh, mi \in Addrs(heap), g \in GarbageMats :
           InternalNode_AddMeshNode(p, mesh, mi, g)

NextDraw ==
    \/ DrawScene
    \/ DrawMesh
    \/ DrawMaterial
    \/ DrawInstance
    \/ DrawMeshNode
    \/ QueryDrawList
    \/ QueryBoundingBox

SpecDraw == Init /\ [][NextDraw]_vars

(***************************************************************************)
(* SpecTwin: scenes built one after the other, each with its own mesh, up  *)
(* to MaxTwinMaterials materials with one instance each and one mesh node  *)
(* per instance under the root; the host builds on the newest scene only   *)
(* and asks any scene for its draw list.                                   *)
(***************************************************************************)
Newest == Len(scenes)

TwinScene == Len(scenes) < MaxScenes /\ Scene_Scene

TwinMesh == scenes # <<>> /\ scenes[Newest].m_meshes = <<>> /\ Scene_CreateMesh(Newest, UnitBox)

TwinMaterial ==
    /\ scenes # <<>>
    /\ scenes[Newest].m_meshes # <<>>
    /\ Len(scenes[Newest].m_materials) < MaxTwinMaterials
    /\ Scene_CreateMaterial(Newest)

TwinInstance ==
    /\ scenes # <<>>
    /\ \E m \in Range(scenes[Newest].m_materials) :
           heap[m].m_instances = <<>> /\ Material_CreateMaterialInstance(m)

TwinMeshNode ==
    /\ scenes # <<>>
    /\ \E m \in Range(scenes[Newest].m_materials), g \in GarbageMats :
           /\ heap[m].m_instances # <<>>
           /\ heap[heap[m].m_instances[1]].m_mesh_nodes = <<>>
           /\ InternalNode_AddMeshNode(scenes[Newest].m_root_node, scenes[Newest].m_meshes[1],
                                       heap[m].m_instances[1], g)

NextTwin ==
    \/ TwinScene
    \/ TwinMesh
    \/ TwinMaterial
    \/ TwinInstance
    \/ TwinMeshNode
    \/ QueryDrawList

SpecTwin == Init /\ [][NextTwin]_vars

(***************************************************************************)
(* SpecMeshPN: the loader generates the mesh of one shape of up to         *)
(* MaxFaces triangles into a new scene.  The file has two positions and    *)
(* two normals; a face corner names a position, a normal or none (-1) and  *)
(* a texture coordinate or none.                                           *)
(***************************************************************************)
LoadedAttributes == [vertices |-> <<-1, -2, -3, 1, 2, 3>>, normals |-> <<0, 0, 1, 1, 0, 0>>]

Corner(v, n, t) == [vertex_index |-> v, normal_index |-> n, texcoord_index |-> t]

Corners == {Corner(0, 0, -1), Corner(1, 0, -1), Corner(0, 1, -1), Corner(0, 0, 0), Corner(1, -1, -1)}

Shapes == UNION {[1..(3 * n) -> Corners] : n \in 0..MaxFaces}

GarbageFloats == {0, 9}

MeshPNScene == scenes = <<>> /\ Scene_Scene

MeshPNGenerate ==
    /\ Alive
    /\ scenes # <<>>
    /\ scenes[1].m_meshes = <<>>
    /\ \E mesh_indices \in Shapes, garbage \in GarbageFloats :
           GenerateMeshPN(1, LoadedAttributes, mesh_indices, garbage)

NextMeshPN ==
    \/ MeshPNScene
    \/ MeshPNGenerate

SpecMeshPN == Init /\ [][NextMeshPN]_vars

(***************************************************************************)
(* SpecEndToEnd: the end-to-end scenario.  One mesh with the unit box, one *)
(* material, one instance, and chains Root -> Translate(0,0,0) ->          *)
(* Rotate((0,0,1), 0) -> Scale(s) -> MeshNode, as the OBJ loader builds    *)
(* them, created in any order the pointers allow.                          *)
(***************************************************************************)
ChildrenKinds(h, p) == {h[c].kind : c \in Range(h[p].m_children)}

E2EScene == scenes = <<>> /\ Scene_Scene

E2EMesh == scenes # <<>> /\ Count(heap, "Mesh") = 0 /\ Scene_CreateMesh(1, UnitBox)

E2EMaterial == scenes # <<>> /\ Count(heap, "Material") = 0 /\ Scene_CreateMaterial(1)

E2EInstance ==
    /\ Count(heap, "MaterialInstance") = 0
    /\ \E m \in Addrs(heap) : Material_CreateMaterialInstance(m)

E2ETranslate ==
    /\ Count(heap, "Translate") < MaxChains
    /\ \E p \in OfKind(heap, "Root") : InternalNode_AddTranslateNode(p, 0, 0, 0)

E2ERotate ==
    \E p \in OfKind(heap, "Translate") :
        heap[p].m_children = <<>> /\ InternalNode_AddRotateNode(p, 0, 0, 1, 0)

E2EScale ==
    \E p \in OfKind(heap, "Rotate"), s \in Factors :
        heap[p].m_children = <<>> /\ InternalNode_AddScaleNode(p, s)

E2EMeshNode ==
    \E p \in OfKind(heap, "Scale"), mesh, mi \in Addrs(heap), g \in GarbageMats :
        heap[p].m_children = <<>> /\ InternalNode_AddMeshNode(p, mesh, mi, g)

NextEndToEnd ==
    \/ E2EScene
    \/ E2EMesh
    \/ E2EMaterial
    \/ E2EInstance
    \/ E2ETranslate
    \/ E2ERotate
    \/ E2EScale
    \/ E2EMeshNode
    \/ QueryDrawList
    \/ QueryBoundingBox

SpecEndToEnd == Init /\ [][NextEndToEnd]_vars

(***************************************************************************)
(* SpecProps: a scene with one object of six kinds (root, mesh, material,  *)
(* instance, translate node, mesh node); the host sets, removes and asks   *)
(* for properties on any of them, at most MaxPropObjects of them ever      *)
(* getting a dictionary, and runs the three queries of the scene.  The     *)
(* mesh node goes below the root, after the translate node, or below the   *)
(* translate node.                                                         *)
(***************************************************************************)
PropScene == scenes = <<>> /\ Scene_Scene

PropMesh == Len(heap) = 1 /\ Scene_CreateMesh(1, UnitBox)

PropMaterial == Len(heap) = 2 /\ Scene_CreateMaterial(1)

PropInstance == Len(heap) = 3 /\ Material_CreateMaterialInstance(3)

PropTranslate == Len(heap) = 4 /\ InternalNode_AddTranslateNode(1, 1, 2, 3)

PropMeshNode ==
    Len(heap) = 5 /\ \E p \in {1, 5}, g \in GarbageMats : InternalNode_AddMeshNode(p, 2, 4, g)

WithDictionary(h) == {o \in Addrs(h) : Len(h[o].m_dictionary) > 0}

PropSet ==
    \E o \in Addrs(heap), k \in Keys, v \in Values :
        /\ o \in WithDictionary(heap) \/ Cardinality(WithDictionary(heap)) < MaxPropObjects
        /\ SetProperty(o, k, v)

PropRemove == \E o \in Addrs(heap), k \in Keys : RemoveProperty(o, k)

PropHas == \E o \in Addrs(heap) : HasProperties(o)

NextProps ==
    \/ PropScene
    \/ PropMesh
    \/ PropMaterial
    \/ PropInstance
    \/ PropTranslate
    \/ PropMeshNode
    \/ PropSet
    \/ PropRemove
    \/ PropHas
    \/ QueryDrawList
    \/ QueryBoundingBox
    \/ QueryToJson

SpecProps == Init /\ [][NextProps]_vars

(***************************************************************************)
(* SpecReflect: a scene with a mesh and up to MaxReflectPerKind nodes of   *)
(* each kind under the root; the host asks every object for fields by      *)
(* name.                                                                   *)
(***************************************************************************)
ReflectScene == scenes = <<>> /\ Scene_Scene

ReflectMesh == Len(heap) = 1 /\ Scene_CreateMesh(1, UnitBox)

ReflectMaterial == Len(heap) = 2 /\ Scene_CreateMaterial(1)

ReflectInstance == Len(heap) = 3 /\ Material_CreateMaterialInstance(3)

ReflectTranslate ==
    /\ Len(heap) >= 4 /\ Count(heap, "Translate") < MaxReflectPerKind
    /\ \E p \in OfKind(heap, "Root") : InternalNode_AddTranslateNode(p, 1, 2, 3)

ReflectRotate ==
    /\ Len(heap) >= 4 /\ Count(heap, "Rotate") < MaxReflectPerKind
    /\ \E p \in OfKind(heap, "Root") : InternalNode_AddRotateNode(p, 0, 0, 1, 1)

ReflectScale ==
    /\ Len(heap) >= 4 /\ Count(heap, "Scale") < MaxReflectPerKind
    /\ \E p \in OfKind(heap, "Root") : InternalNode_AddScaleNode(p, 2)

ReflectMeshNode ==
    /\ Len(heap) >= 4 /\ Count(heap, "MeshNode") < MaxReflectPerKind
    /\ \E p \in OfKind(heap, "Root"), g \in GarbageMats :
           InternalNode_AddMeshNode(p, 2, 4, g)

ReflectGetField == \E o \in Addrs(heap), name \in AskedNames : GetField(o, name)

NextReflect ==
    \/ ReflectScene
    \/ ReflectMesh
    \/ ReflectMaterial
    \/ ReflectInstance
    \/ ReflectTranslate
    \/ ReflectRotate
    \/ ReflectScale
    \/ ReflectMeshNode
    \/ ReflectGetField

SpecReflect == Init /\ [][NextReflect]_vars

(***************************************************************************)
(* SpecContract: the host may pass null pointers to AddMeshNode, in a      *)
(* build with or without NDEBUG.  Nothing runs once the process is gone.   *)
(***************************************************************************)
ContractScene == Alive /\ scenes = <<>> /\ Scene_Scene

ContractMesh == Alive /\ scenes # <<>> /\ Count(heap, "Mesh") = 0 /\ Scene_CreateMesh(1, UnitBox)

ContractMaterial ==
    Alive /\ scenes # <<>> /\ Count(heap, "Material") = 0 /\ Scene_CreateMaterial(1)

ContractInstance ==
    /\ Alive
    /\ Count(heap, "MaterialInstance") = 0
    /\ \E m \in Addrs(heap) : Material_CreateMaterialInstance(m)

ContractTranslate ==
    /\ Alive
    /\ Count(heap, "Translate") = 0
    /\ \E p \in Addrs(heap) : InternalNode_AddTranslateNode(p, 1, 2, 3)

ContractMeshNode ==
    /\ Alive
    /\ Count(heap, "MeshNode") < MaxContractNodes
    /\ \E p \in Addrs(heap), g \in GarbageMats :
           \E mesh \in OfKind(heap, "Mesh") \cup {NULL},
              mi \in OfKind(heap, "MaterialInstance") \cup {NULL} :
               InternalNode_AddMeshNode(p, mesh, mi, g)

ContractDrawList == Alive /\ QueryDrawList

NextContract ==
    \/ ContractScene
    \/ ContractMesh
    \/ ContractMaterial
    \/ ContractInstance
    \/ ContractTranslate
    \/ ContractMeshNode
    \/ ContractDrawList

SpecContract == Init /\ [][NextContract]_vars

(***************************************************************************)
(* The tree seen from a node: its parent, its Translate/Rotate/Scale       *)
(* ancestors from the root down, and the matrix each of them stands for,   *)
(* written out in closed form.                                             *)
(***************************************************************************)
Parent(h, n) == CHOOSE p \in InternalNodes(h) : n \in Range(h[p].m_children)

RECURSIVE Descendants(_, _)
Descendants(h, n) ==
    IF h[n].kind = "MeshNode" THEN {}
    ELSE UNION {{c} \cup Descendants(h, c) : c \in Range(h[n].m_children)}

MeshNodesIn(h, root) == {n \in Descendants(h, root) : h[n].kind = "MeshNode"}

RECURSIVE Ancestors(_, _)
Ancestors(h, n) ==
    IF h[n].kind = "Root" \/ h[Parent(h, n)].kind = "Root" THEN <<>>
    ELSE Append(Ancestors(h, Parent(h, n)), Parent(h, n))

Turn(q, a) ==
    CASE a = Vec3(0, 0, 1) ->
           << <<Cos4(q), -Sin4(q), 0, 0>>, <<Sin4(q), Cos4(q), 0, 0>>, <<0, 0, 1, 0>>, <<0, 0, 0, 1>> >>
      [] a = Vec3(1, 0, 0) ->
           << <<1, 0, 0, 0>>, <<0, Cos4(q), -Sin4(q), 0>>, <<0, Sin4(q), Cos4(q), 0>>, <<0, 0, 0, 1>> >>

LocalMatrix(h, p) ==
    CASE h[p].kind = "Translate" ->
           << <<1, 0, 0, h[p].m_amount[1]>>, <<0, 1, 0, h[p].m_amount[2]>>,
              <<0, 0, 1, h[p].m_amount[3]>>, <<0, 0, 0, 1>> >>
      [] h[p].kind = "Rotate" -> Turn(h[p].m_angle, h[p].m_axis)
      [] h[p].kind = "Scale" ->
           << <<h[p].m_factor, 0, 0, 0>>, <<0, h[p].m_factor, 0, 0>>,
              <<0, 0, h[p].m_factor, 0>>, <<0, 0, 0, 1>> >>

RECURSIVE ProductOf(_, _)
ProductOf(h, path) ==
    IF path = <<>> THEN Identity
    ELSE MatMul(ProductOf(h, SubSeq(path, 1, Len(path) - 1)), LocalMatrix(h, path[Len(path)]))

\* identity * L1 * ... * Lk over the ancestors of n, root to parent
WorldOf(h, n) == ProductOf(h, Ancestors(h, n))

(***************************************************************************)
(* Identifiers                                                             *)
(***************************************************************************)
\* C1: in every step of the scene-owner thread, over any number of scenes,
\* an object that exists keeps its Identifier, and an object the step creates
\* gets an Identifier strictly greater than every Identifier issued before
\* and than that of every object that exists.
C1_IdentifiersIncrease ==
    [][ /\ \A a \in DOMAIN heap : a \in DOMAIN heap' /\ heap'[a].m_id = heap[a].m_id
        /\ \A a \in DOMAIN heap' \ DOMAIN heap :
              /\ \A i \in DOMAIN issued : heap'[a].m_id > issued[i]
              /\ \A b \in DOMAIN heap : heap'[a].m_id > heap[b].m_id ]_vars

\* two scenes and objects of three further kinds share the one counter
C1_Witness ==
    /\ Len(scenes) = 2
    /\ Count(heap, "Mesh") >= 1
    /\ Count(heap, "Material") >= 1
    /\ Count(heap, "Translate") + Count(heap, "Rotate") + Count(heap, "Scale") >= 1

\* C2: under every interleaving of the increments and the reads of concurrent
\* calls of GetUniqueID, no two calls return the same Identifier.
C2_ConcurrentCallsDistinct ==
    \A i, j \in DOMAIN issued : i # j => issued[i] # issued[j]

(***************************************************************************)
(* The draw list                                                           *)
(***************************************************************************)
MaterialsOf(s) == Range(scenes[s].m_materials)

InstancesOf(s) == UNION {Range(heap[m].m_instances) : m \in MaterialsOf(s)}

\* the mesh nodes constructed against an instance of a material of scene s
RegisteredMeshNodes(s) ==
    {n \in OfKind(heap, "MeshNode") : heap[n].m_material_instance \in InstancesOf(s)}

\* C3: the list ComputeDrawList returns has one entry per mesh node registered
\* with an instance of a material of the scene, no other entry, and the entry
\* of a mesh node carries its mesh pointer and the pointer to its own transform.
C3_DrawListEntries ==
    last.op = "ComputeDrawList" =>
        LET dl == last.result
            R == RegisteredMeshNodes(last.scene)
        IN /\ Len(dl) = Cardinality(R)
           /\ \A k \in DOMAIN dl : dl[k].transform \in R
           /\ \A n \in R : \E k \in DOMAIN dl :
                  dl[k] = [mesh |-> heap[n].m_mesh, transform |-> n]

\* a draw list of two mesh nodes registered with two instances
C3_Witness ==
    /\ last.op = "ComputeDrawList"
    /\ Len(last.result) = 2
    /\ heap[last.result[1].transform].m_material_instance
           # heap[last.result[2].transform].m_material_instance

MaterialOfInstance(mi) ==
    CHOOSE m \in OfKind(heap, "Material") : mi \in Range(heap[m].m_instances)

\* mesh node a comes before mesh node b: by creation of the material, then
\* of the instance, then by registration
DrawsBefore(a, b) ==
    LET ia == heap[a].m_material_instance
        ib == heap[b].m_material_instance
        ma == MaterialOfInstance(ia)
        mb == MaterialOfInstance(ib)
    IN \/ heap[ma].m_id < heap[mb].m_id
       \/ ma = mb /\ heap[ia].m_id < heap[ib].m_id
       \/ ia = ib /\ heap[a].m_id < heap[b].m_id

\* C4: the entries of the draw list are ordered by material in creation order,
\* then by instance in creation order, then by mesh node in registration order.
C4_CreationOrder ==
    last.op = "ComputeDrawList" =>
        \A i, j \in DOMAIN last.result :
            i < j => DrawsBefore(last.result[i].transform, last.result[j].transform)

(***************************************************************************)
(* Transforms                                                              *)
(***************************************************************************)
RootOf(s) == scenes[s].m_root_node

\* n hangs under Scale p2 under Translate p1 under the root
UnderTranslateScale(n, p1, p2) ==
    /\ heap[n].kind = "MeshNode"
    /\ heap[p2].kind = "Scale" /\ n \in Range(heap[p2].m_children)
    /\ heap[p1].kind = "Translate" /\ p2 \in Range(heap[p1].m_children)
    /\ heap[Parent(heap, p1)].kind = "Root"

\* C5: after a query has traversed the tree, every mesh node of the tree holds
\* identity * L1 * ... * Lk, the local matrices of its Translate/Rotate/Scale
\* ancestors from the root down; under Root -> Translate(t) -> Scale(f) the
\* point (1,1,1) maps to f*(1,1,1) + t.
C5_WorldTransform ==
    Refreshed =>
        \A n \in MeshNodesIn(heap, RootOf(last.scene)) :
            /\ heap[n].m_transform = WorldOf(heap, n)
            /\ \A p1, p2 \in Addrs(heap) :
                   UnderTranslateScale(n, p1, p2) =>
                       MatVec(heap[n].m_transform, <<1, 1, 1, 1>>)
                           = << heap[p2].m_factor + heap[p1].m_amount[1],
                                heap[p2].m_factor + heap[p1].m_amount[2],
                                heap[p2].m_factor + heap[p1].m_amount[3], 1 >>

\* a traversed mesh node under Translate(1,2,3) -> Scale(2)
C5_Witness ==
    /\ Refreshed
    /\ \E n, p1, p2 \in Addrs(heap) :
           /\ UnderTranslateScale(n, p1, p2)
           /\ heap[p2].m_factor = 2
           /\ heap[p1].m_amount = Vec3(1, 2, 3)

\* every stored transform replaced by g
Scramble(h, g) ==
    [a \in DOMAIN h |->
        IF h[a].kind = "MeshNode" THEN [h[a] EXCEPT !.m_transform = g] ELSE h[a]]

\* C6: once a query has run, running ComputeDrawList or
\* ComputeAxisAlignedBoundingBox again changes no stored transform and returns
\* the same result, and the transforms a traversal stores are the same
\* whatever the mesh nodes held before it.
C6_Overwritten ==
    last.op \in Queries =>
        LET sc == scenes[last.scene]
            d == Scene_ComputeDrawList(heap, sc)
            b == Scene_ComputeAxisAlignedBoundingBox(heap, sc)
        IN /\ d.heap = heap
           /\ b.heap = heap
           /\ last.op = "ComputeDrawList" => d.result = last.result
           /\ last.op = "ComputeAxisAlignedBoundingBox" => b.result = last.result
           /\ Refreshed =>
                  \A g \in GarbageMats : Scene_ComputeDrawList(Scramble(heap, g), sc).heap = heap

\* a query repeated on a tree whose mesh node has a transform of its own
C6_Witness ==
    /\ last.op = "ComputeDrawList"
    /\ last.after = "query"
    /\ \E n \in OfKind(heap, "MeshNode") :
           heap[n].m_transform \notin GarbageMats \cup {Identity}

\* C7: a write through a GetField handle changes no stored transform; the
\* ComputeDrawList that follows gives every mesh node under the written node
\* the product built from the new value, and every other mesh node the world
\* transform it had under the old value -- its stored transform unchanged
\* when the write came right after a traversal.
C7_RecomputedAfterWrite ==
    [][ /\ last'.op = "WriteField" =>
               \A m \in OfKind(heap, "MeshNode") : heap'[m].m_transform = heap[m].m_transform
        /\ (last.op = "WriteField" /\ last'.op = "ComputeDrawList") =>
               LET n == last.obj
                   hOld == [heap EXCEPT ![n][last.result.member] = last.result.old]
               IN \A m \in MeshNodesIn(heap, RootOf(last'.scene)) :
                      IF m \in Descendants(heap, n)
                      THEN heap'[m].m_transform = WorldOf(heap, m)
                      ELSE /\ heap'[m].m_transform = WorldOf(hOld, m)
                           /\ last.result.fresh => heap'[m].m_transform = heap[m].m_transform
      ]_vars

\* a draw list computed right after a write to a node that has a mesh node
\* below it and a mesh node beside it
C7_Witness ==
    /\ last.op = "ComputeDrawList"
    /\ last.after = "WriteField"
    /\ \E a \in TreeNodes(heap) :
           /\ heap[a].kind # "MeshNode"
           /\ MeshNodesIn(heap, a) # {}
           /\ MeshNodesIn(heap, RootOf(1)) \ MeshNodesIn(heap, a) # {}
           /\ \A m \in MeshNodesIn(heap, a) : heap[m].m_transform # Identity

(***************************************************************************)
(* The bounding box                                                        *)
(***************************************************************************)
\* C8: ComputeAxisAlignedBoundingBox on a scene whose root has no children
\* returns min (-1,-1,-1), max (1,1,1), whatever meshes, materials and
\* instances the scene holds.
C8_EmptyRootBox ==
    (/\ last.op = "ComputeAxisAlignedBoundingBox"
     /\ heap[RootOf(last.scene)].m_children = <<>>) =>
        last.result = [min |-> << <<-1, 0>>, <<-1, 0>>, <<-1, 0>> >>,
                       max |-> << <<1, 0>>, <<1, 0>>, <<1, 0>> >>]

\* the box of a childless root in a scene with a mesh, a material and an instance
C8_Witness ==
    /\ last.op = "ComputeAxisAlignedBoundingBox"
    /\ heap[RootOf(last.scene)].m_children = <<>>
    /\ scenes[last.scene].m_meshes # <<>>
    /\ \E m \in MaterialsOf(last.scene) : heap[m].m_instances # <<>>

\* the scene's tree is exactly Root -> Translate(0,0,0) -> Rotate((0,0,1), 0)
\* -> Scale(f) -> MeshNode(mesh with the unit box)
EndToEndTree(s, sn, mn) ==
    \E t, r \in Addrs(heap) :
        /\ heap[RootOf(s)].m_children = <<t>>
        /\ heap[t].kind = "Translate" /\ heap[t].m_amount = Vec3(0, 0, 0)
        /\ heap[t].m_children = <<r>>
        /\ heap[r].kind = "Rotate" /\ heap[r].m_axis = Vec3(0, 0, 1) /\ heap[r].m_angle = 0
        /\ heap[r].m_children = <<sn>>
        /\ heap[sn].kind = "Scale"
        /\ heap[sn].m_children = <<mn>>
        /\ heap[mn].kind = "MeshNode"
        /\ heap[heap[mn].m_mesh].m_aabb = [min |-> <<-1, -1, -1>>, max |-> <<1, 1, 1>>]

\* the box with corners (-c,-c,-c) and (c,c,c)
CubeBox(c) ==
    [min |-> << <<-c, 0>>, <<-c, 0>>, <<-c, 0>> >>, max |-> << <<c, 0>>, <<c, 0>>, <<c, 0>> >>]

\* C9: for the end-to-end tree ComputeDrawList returns exactly one entry, which
\* references the mesh, and ComputeAxisAlignedBoundingBox returns
\* {(-1,-1,-1),(1,1,1)} for Scale(1) and {(-2,-2,-2),(2,2,2)} for Scale(2).
C9_EndToEnd ==
    \A s \in DOMAIN scenes, sn, mn \in Addrs(heap) :
        EndToEndTree(s, sn, mn) /\ last.scene = s =>
            /\ last.op = "ComputeDrawList" =>
                   Len(last.result) = 1 /\ last.result[1].mesh = heap[mn].m_mesh
            /\ (last.op = "ComputeAxisAlignedBoundingBox" /\ heap[sn].m_factor = 1) =>
                   last.result = CubeBox(1)
            /\ (last.op = "ComputeAxisAlignedBoundingBox" /\ heap[sn].m_factor = 2) =>
                   last.result = CubeBox(2)

\* the bounding box of the end-to-end tree with Scale(2)
C9_Witness ==
    /\ last.op = "ComputeAxisAlignedBoundingBox"
    /\ \E sn, mn \in Addrs(heap) : EndToEndTree(last.scene, sn, mn) /\ heap[sn].m_factor = 2

SetMin(S) == CHOOSE x \in S : \A y \in S : x <= y

SetMax(S) == CHOOSE x \in S : \A y \in S : x >= y

\* coordinate i of the two transformed corners of the boxes of the mesh nodes N
CornerValues(N, i) ==
    UNION {{MatVec(WorldOf(heap, n), <<heap[heap[n].m_mesh].m_aabb.min[1],
                                      heap[heap[n].m_mesh].m_aabb.min[2],
                                      heap[heap[n].m_mesh].m_aabb.min[3], 1>>)[i],
            MatVec(WorldOf(heap, n), <<heap[heap[n].m_mesh].m_aabb.max[1],
                                      heap[heap[n].m_mesh].m_aabb.max[2],
                                      heap[heap[n].m_mesh].m_aabb.max[3], 1>>)[i]} : n \in N}

\* C10: for a tree with only Translate and Scale nodes above its mesh nodes
\* (at least one mesh node) the returned min and max are the componentwise
\* minimum and maximum of the transformed min and max corners of the mesh
\* nodes' boxes, wherever the boxes lie.
C10_ExactBox ==
    LET N == MeshNodesIn(heap, RootOf(last.scene))
    IN (/\ last.op = "ComputeAxisAlignedBoundingBox"
        /\ N # {}
        /\ \A a \in Descendants(heap, RootOf(last.scene)) : heap[a].kind # "Rotate") =>
           \A i \in 1..3 :
               /\ last.result.min[i] = <<SetMin(CornerValues(N, i)), 0>>
               /\ last.result.max[i] = <<SetMax(CornerValues(N, i)), 0>>

(***************************************************************************)
(* Properties                                                              *)
(***************************************************************************)
\* the key/value pairs object o holds (none while no dictionary is allocated)
PropertiesOf(h, o) == IF Len(h[o].m_dictionary) = 0 THEN NewDictionary ELSE h[o].m_dictionary[1]

\* the step is RemoveProperty(k) right after SetProperty(k, v) on the same object
RemovesWhatWasSet == last'.op = "RemoveProperty" /\ last'.after = "SetProperty"

\* C11 as stated: for any object and any key k, after SetProperty(k, v)
\* followed by RemoveProperty(k) on the same object HasProperties() is false.
C11_SetThenRemove ==
    [][ RemovesWhatWasSet => ~Object_HasProperties(heap', last'.obj) ]_vars

\* C11 amended: after SetProperty(k, v) followed by RemoveProperty(k) on the
\* same object, k is gone and every other key keeps its value, so
\* HasProperties() is false if the object holds no key other than k and true
\* if it holds one.
C11_SetThenRemoveOtherKeys ==
    [][ RemovesWhatWasSet =>
            LET o == last'.obj
                k == last'.result.key
                others == DOMAIN PropertiesOf(heap, o) \ {k}
            IN /\ DOMAIN PropertiesOf(heap', o) = others
               /\ \A j \in others : PropertiesOf(heap', o)[j] = PropertiesOf(heap, o)[j]
               /\ Object_HasProperties(heap', o) <=> others # {} ]_vars

\* a key set and removed again on an object that holds another key
C11_Witness ==
    /\ last.op = "RemoveProperty"
    /\ last.after = "SetProperty"
    /\ Object_HasProperties(heap, last.obj)

\* C12: SetProperty(k, v) leaves the object with an allocated dictionary in
\* which k maps to v, the keys are the old keys and k, and every other key has
\* its old value, and touches no other object; HasProperties() returns true
\* exactly when the dictionary is allocated and holds at least one key.
C12_SetAndHasProperties ==
    [][ /\ last'.op = "SetProperty" =>
               LET o == last'.obj
                   k == last'.result.key
                   old == PropertiesOf(heap, o)
                   new == PropertiesOf(heap', o)
               IN /\ Len(heap'[o].m_dictionary) = 1
                  /\ DOMAIN new = DOMAIN old \cup {k}
                  /\ new[k] = last'.result.value
                  /\ \A j \in DOMAIN old \ {k} : new[j] = old[j]
                  /\ \A a \in Addrs(heap) \ {o} : heap'[a] = heap[a]
        /\ last'.op = "HasProperties" =>
               last'.result = (/\ Len(heap[last'.obj].m_dictionary) = 1
                               /\ Cardinality(DOMAIN PropertiesOf(heap, last'.obj)) >= 1)
      ]_vars

\* a SetProperty that left two keys with different values in the dictionary
C12_Witness ==
    /\ last.op = "SetProperty"
    /\ DOMAIN PropertiesOf(heap, last.obj) = Keys
    /\ \E j \in Keys : PropertiesOf(heap, last.obj)[j] # last.result.value

\* C13: RemoveProperty(k) on an object without a dictionary, or whose
\* dictionary does not contain k, changes nothing: no dictionary is allocated,
\* every key/value pair and the result of HasProperties() stay, and the
\* process goes on.
C13_RemoveAbsent ==
    [][ (/\ last'.op = "RemoveProperty"
         /\ last'.result.key \notin DOMAIN PropertiesOf(heap, last'.obj)) =>
            /\ heap' = heap
            /\ Len(heap'[last'.obj].m_dictionary) = Len(heap[last'.obj].m_dictionary)
            /\ Object_HasProperties(heap', last'.obj) = Object_HasProperties(heap, last'.obj)
            /\ pc' = pc /\ Alive' ]_vars

\* RemoveProperty on an object that never had a dictionary, in a scene where
\* another object has properties
C13_Witness ==
    /\ last.op = "RemoveProperty"
    /\ Len(heap[last.obj].m_dictionary) = 0
    /\ \E o \in Addrs(heap) : Object_HasProperties(heap, o)

(***************************************************************************)
(* Reflection                                                              *)
(***************************************************************************)
ReflectedKinds == {"Root", "Translate", "Rotate", "Scale", "MeshNode", "Mesh"}

\* the field names of each kind
KnownFields(kind) ==
    CASE kind = "Root" -> {}
      [] kind = "Translate" -> {"translate.amount"}
      [] kind = "Rotate" -> {"rotate.axis", "rotate.angle"}
      [] kind = "Scale" -> {"scale.factor"}
      [] kind = "MeshNode" -> {"mesh", "material.instance"}
      [] kind = "Mesh" -> {"aabb.min", "aabb.max", "vertex.attributes", "vertex.size",
                           "vertex.count", "index.type", "index.size", "index.count"}

\* C14: GetField with a name that is not a field of the object's kind (any
\* name, for a root) returns the empty handle, the process goes on, and
\* nothing of the object, of any other object or of the scene changes.
C14_UnknownFieldIsEmpty ==
    [][ (/\ last'.op = "GetField"
         /\ last'.result.field_name \notin KnownFields(heap[last'.obj].kind)) =>
            /\ last'.result.ref = EmptyValueRef
            /\ heap' = heap /\ scenes' = scenes /\ id' = id
            /\ pc' = pc /\ Alive' ]_vars

\* a rotate node asked for a field of another kind
C14_Witness ==
    /\ last.op = "GetField"
    /\ heap[last.obj].kind = "Rotate"
    /\ last.result.field_name = "translate.amount"
    /\ last.result.ref = EmptyValueRef

MetadataKeys(kind) == {metadata(kind).fields[i].key : i \in DOMAIN metadata(kind).fields}

\* C15: for every object of the kinds Root, Translate, Rotate, Scale, MeshNode
\* and Mesh, GetField(name) returns a non-empty handle exactly for the names
\* that are keys of a Field in the kind's metadata table; the fields of
\* Translate, Rotate and Scale are all editable, those of MeshNode and Mesh
\* all non-editable.
C15_ReflectionInSync ==
    /\ \A o \in Addrs(heap) :
           heap[o].kind \in ReflectedKinds =>
               \A name \in AskedNames :
                   Object_GetField(heap, o, name) # EmptyValueRef
                       <=> name \in MetadataKeys(heap[o].kind)
    /\ last.op = "GetField" =>
           (last.result.ref # EmptyValueRef
                <=> last.result.field_name \in MetadataKeys(heap[last.obj].kind))
    /\ \A kind \in {"Translate", "Rotate", "Scale"} :
           \A i \in DOMAIN metadata(kind).fields : metadata(kind).fields[i].is_editable
    /\ \A kind \in {"MeshNode", "Mesh"} :
           \A i \in DOMAIN metadata(kind).fields : ~metadata(kind).fields[i].is_editable

\* objects of all six kinds exist and a mesh has answered with a handle
C15_Witness ==
    /\ {heap[o].kind : o \in Addrs(heap)} \cap ReflectedKinds = ReflectedKinds
    /\ last.op = "GetField"
    /\ heap[last.obj].kind = "Mesh"
    /\ last.result.ref # EmptyValueRef

(***************************************************************************)
(* Building the tree                                                       *)
(***************************************************************************)
Builders == {"AddTranslateNode", "AddRotateNode", "AddScaleNode", "AddMeshNode"}

KindBuilt(op) ==
    CASE op = "AddTranslateNode" -> "Translate"
      [] op = "AddRotateNode" -> "Rotate"
      [] op = "AddScaleNode" -> "Scale"
      [] op = "AddMeshNode" -> "MeshNode"

AllNodes(h) == {a \in Addrs(h) : h[a].kind \in InternalKinds \cup {"MeshNode"}}

\* C16: a call of AddTranslateNode, AddRotateNode, AddScaleNode or AddMeshNode
\* on node P takes exactly one Identifier, which no object had; exactly one
\* object is new, it is of the kind asked for, it is the last child of P and
\* the call returns its address; the children P had come first, in their
\* order; the parameters of P and every other node are as before.
C16_BuilderFrame ==
    [][ last'.op \in Builders =>
            LET P == last'.obj
                n == last'.result
            IN /\ id' = id + 1
               /\ issued' = Append(issued, heap'[n].m_id)
               /\ \A a \in Addrs(heap) : heap[a].m_id # heap'[n].m_id
               /\ Addrs(heap') = Addrs(heap) \cup {n} /\ n \notin Addrs(heap)
               /\ heap'[n].kind = KindBuilt(last'.op)
               /\ heap'[P].m_children = Append(heap[P].m_children, n)
               /\ [heap'[P] EXCEPT !.m_children = heap[P].m_children] = heap[P]
               /\ \A a \in AllNodes(heap) \ {P} : heap'[a] = heap[a] ]_vars

\* a mesh node added as the third child of its parent
C16_Witness ==
    /\ last.op = "AddMeshNode"
    /\ Len(heap[last.obj].m_children) = 3
    /\ heap[last.obj].m_children[3] = last.result

\* the places (instance, index) at which mesh node n is registered
Registrations(h, n) ==
    UNION {{<<mi, i>> : i \in {j \in DOMAIN h[mi].m_mesh_nodes : h[mi].m_mesh_nodes[j] = n}} :
              mi \in OfKind(h, "MaterialInstance")}

\* every mesh node is registered once, with its own instance, and every list
\* is in construction order
RegisteredOnce(h) ==
    /\ \A n \in OfKind(h, "MeshNode") :
           /\ Cardinality(Registrations(h, n)) = 1
           /\ \A r \in Registrations(h, n) : r[1] = h[n].m_material_instance
    /\ \A mi \in OfKind(h, "MaterialInstance") :
           \A i, j \in DOMAIN h[mi].m_mesh_nodes :
               /\ h[h[mi].m_mesh_nodes[i]].kind = "MeshNode"
               /\ i < j => h[h[mi].m_mesh_nodes[i]].m_id < h[h[mi].m_mesh_nodes[j]].m_id

\* C17: AddMeshNode(mesh, instance) appends the new mesh node to the list of
\* `instance' and changes the list of no other instance; after every step
\* every mesh node stands exactly once in all the lists together, in the list
\* of the instance it was constructed against, and every list is in
\* construction order.
C17_RegisteredOnce ==
    [][ /\ RegisteredOnce(heap')
        /\ last'.op = "AddMeshNode" =>
               LET n == last'.result
                   mi == heap'[n].m_material_instance
               IN /\ heap'[mi].m_mesh_nodes = Append(heap[mi].m_mesh_nodes, n)
                  /\ \A o \in OfKind(heap, "MaterialInstance") \ {mi} :
                         heap'[o].m_mesh_nodes = heap[o].m_mesh_nodes
        /\ last'.op # "AddMeshNode" =>
               \A o \in OfKind(heap, "MaterialInstance") :
                   heap'[o].m_mesh_nodes = heap[o].m_mesh_nodes ]_vars

\* a second mesh node registered with an instance, while another instance
\* has none
C17_Witness ==
    /\ last.op = "AddMeshNode"
    /\ Len(heap[heap[last.result].m_material_instance].m_mesh_nodes) = 2
    /\ \E mi \in OfKind(heap, "MaterialInstance") : heap[mi].m_mesh_nodes = <<>>

\* C18: a call of AddMeshNode with a null mesh or a null material instance
\* ends the process on the assertion before any effect: no child is appended,
\* no back-reference is registered and no Identifier is consumed.
C18_NullArgumentsAbort ==
    [][ \A p \in Addrs(heap), g \in GarbageMats :
            \A mesh \in OfKind(heap, "Mesh") \cup {NULL},
               mi \in OfKind(heap, "MaterialInstance") \cup {NULL} :
                ((mesh = NULL \/ mi = NULL) /\ InternalNode_AddMeshNode(p, mesh, mi, g)) =>
                    /\ pc' = Aborted
                    /\ heap' = heap
                    /\ id' = id /\ issued' = issued ]_vars

\* the parents of node n: the nodes that have n in their child list
ParentsOf(h, n) == {p \in InternalNodes(h) : n \in Range(h[p].m_children)}

\* how often n stands in the child list of p
TimesChildOf(h, p, n) == Cardinality({i \in DOMAIN h[p].m_children : h[p].m_children[i] = n})

RECURSIVE Depth(_, _)
Depth(h, n) == IF h[n].kind = "Root" THEN 0 ELSE 1 + Depth(h, Parent(h, n))

\* the nodes form trees hanging from the roots of the scenes
IsForest(h, ss) ==
    /\ \A s \in DOMAIN ss : h[ss[s].m_root_node].kind = "Root"
    /\ \A s, t \in DOMAIN ss : s # t => ss[s].m_root_node # ss[t].m_root_node
    /\ OfKind(h, "Root") = {ss[s].m_root_node : s \in DOMAIN ss}
    /\ \A n \in AllNodes(h) :
           IF h[n].kind = "Root" THEN ParentsOf(h, n) = {}
           ELSE /\ Cardinality(ParentsOf(h, n)) = 1
                /\ TimesChildOf(h, Parent(h, n), n) = 1
                /\ \E s \in DOMAIN ss : n \in Descendants(h, ss[s].m_root_node)
    /\ \A n \in AllNodes(h) : n \notin Descendants(h, n)
    /\ \A n \in OfKind(h, "MeshNode") : "m_children" \notin DOMAIN h[n]

\* C19: after every step the nodes form a tree under the single root of each
\* scene -- every other node is in the child list of exactly one node, once,
\* and below a root; no node is below itself; mesh nodes have no child list
\* -- and the step leaves the root of every scene and the parent of every
\* existing node as they were.
C19_TreeShape ==
    [][ /\ IsForest(heap', scenes')
        /\ \A s \in DOMAIN scenes :
               s \in DOMAIN scenes' /\ scenes'[s].m_root_node = scenes[s].m_root_node
        /\ \A n \in AllNodes(heap) :
               /\ heap'[n].kind = heap[n].kind
               /\ ParentsOf(heap', n) = ParentsOf(heap, n) ]_vars

\* two scenes, and a node three levels below a root
C19_Witness ==
    /\ Len(scenes) = 2
    /\ \E n \in AllNodes(heap) : Depth(heap, n) = 3

(***************************************************************************)
(* Export                                                                  *)
(***************************************************************************)
\* the number of entries the export of scene s has under `section'
Entries(h, ss, s, section) ==
    IF s \in DOMAIN ss THEN Len(Scene_ToJson(h, ss[s])[section]) ELSE 0

\* 1 if the step is the call `op' on scene s, else 0
Calls(op, s) == IF last'.op = op /\ last'.scene = s THEN 1 ELSE 0

\* the meshes and the materials of scene s that no mesh node uses
Unused(h, ss, s) ==
    {m \in Range(ss[s].m_meshes) : \A n \in OfKind(h, "MeshNode") : h[n].m_mesh # m}
        \cup {m \in Range(ss[s].m_materials) :
                 \A i \in DOMAIN h[m].m_instances : h[h[m].m_instances[i]].m_mesh_nodes = <<>>}

\* C20: the export of a scene has as many entries under "materials" as
\* CreateMaterial was called on the scene and as many under "meshes" as
\* CreateMesh was called on it: none for a new scene, one more with each such
\* call, and the same number after any other step, whatever the tree and
\* whether or not the meshes and materials are used by a mesh node; the
\* document ToJson returns has these numbers of entries.
C20_ExportCounts ==
    [][ \A s \in DOMAIN scenes' :
            /\ Entries(heap', scenes', s, "materials")
                   = Entries(heap, scenes, s, "materials") + Calls("CreateMaterial", s)
            /\ Entries(heap', scenes', s, "meshes")
                   = Entries(heap, scenes, s, "meshes") + Calls("CreateMesh", s)
            /\ (last'.op = "ToJson" /\ last'.scene = s) =>
                   /\ Len(last'.result["materials"]) = Entries(heap, scenes, s, "materials")
                   /\ Len(last'.result["meshes"]) = Entries(heap, scenes, s, "meshes") ]_vars

\* the export of a scene with two materials and a mesh that no mesh node
\* uses, and a tree below the root
C20_Witness ==
    /\ last.op = "ToJson"
    /\ Len(last.result["materials"]) = 2
    /\ Len(last.result["meshes"]) = 1
    /\ Cardinality(Unused(heap, scenes, last.scene)) = 3
    /\ last.result["scene"]["owns"] # <<>>

(***************************************************************************)
(* The exported node tree                                                  *)
(***************************************************************************)
\* the identifiers found in an exported node and below it, parent first
RECURSIVE JsonIds(_)
JsonIds(j) ==
    IF "owns" \in DOMAIN j
    THEN <<j["object.id"]>> \o Flatten([i \in DOMAIN j["owns"] |-> JsonIds(j["owns"][i])])
    ELSE <<j["object.id"]>>

\* the exported object j is the export of node n and, below it, of n's
\* children in the order of the child list
RECURSIVE ExportsNode(_, _, _)
ExportsNode(h, n, j) ==
    /\ j["object.class"] = metadata(h[n].kind).object_class
    /\ j["object.id"] = h[n].m_id
    /\ ("object.properties" \in DOMAIN j) = Object_HasProperties(h, n)
    /\ Object_HasProperties(h, n) => j["object.properties"] = PropertiesOf(h, n)
    /\ IF h[n].kind = "MeshNode"
       THEN /\ "owns" \notin DOMAIN j
            /\ j["object.refs"]["mesh"] = h[h[n].m_mesh].m_id
            /\ j["object.refs"]["material.instance"] = h[h[n].m_material_instance].m_id
       ELSE /\ "owns" \in DOMAIN j
            /\ Len(j["owns"]) = Len(h[n].m_children)
            /\ \A i \in DOMAIN h[n].m_children :
                   ExportsNode(h, h[n].m_children[i], j["owns"][i])

\* C21: the node tree in the document ToJson returns holds every node of
\* the scene's tree exactly once, each with the class tag of its class and
\* its Identifier, the children of a node under "owns" in the order they
\* were added; an entry has "object.properties" exactly when HasProperties()
\* of the node is true, and the entry of a MeshNode gives the Identifiers
\* of its Mesh and of its MaterialInstance.
C21_ExportedTree ==
    last.op = "ToJson" =>
        LET root == RootOf(last.scene)
            j == last.result["scene"]
            ids == JsonIds(j)
        IN /\ Range(ids) = {heap[n].m_id : n \in {root} \cup Descendants(heap, root)}
           /\ \A a, b \in DOMAIN ids : ids[a] = ids[b] => a = b
           /\ ExportsNode(heap, root, j)

\* the export of a root with two children, a translate node added before a
\* mesh node, where one of the three has properties and another has none
C21_Witness ==
    /\ last.op = "ToJson"
    /\ LET root == RootOf(last.scene)
           ch == heap[root].m_children
       IN /\ Len(ch) = 2
          /\ heap[ch[1]].kind = "Translate"
          /\ heap[ch[2]].kind = "MeshNode"
          /\ Object_HasProperties(heap, ch[2])
          /\ ~Object_HasProperties(heap, ch[1])
          /\ Len(last.result["scene"]["owns"]) = 2
          /\ "object.properties" \in DOMAIN last.result["scene"]["owns"][2]

(***************************************************************************)
(* Two scenes with the same construction history                           *)
(***************************************************************************)
\* the objects made by calls on scene s or on objects of scene s
OwnedBy(h, ss, s) ==
    LET mats == Range(ss[s].m_materials)
    IN {ss[s].m_root_node} \cup Descendants(h, ss[s].m_root_node) \cup Range(ss[s].m_meshes)
           \cup mats \cup UNION {Range(h[m].m_instances) : m \in mats}

\* the construction step of scene s that made object a: 1 for the root, 2
\* for the object made next, and so on (objects are made in address order)
StepOf(h, ss, s, a) == Cardinality({b \in OwnedBy(h, ss, s) : b <= a})

\* what the call of a step was: the class made and the steps that made the
\* objects the call was given or made on
CallOf(h, ss, s, a) ==
    LET step(b) == StepOf(h, ss, s, b)
    IN CASE h[a].kind = "MaterialInstance" ->
              <<"MaterialInstance", step(CHOOSE m \in OfKind(h, "Material") :
                                             a \in Range(h[m].m_instances))>>
         [] h[a].kind = "MeshNode" ->
              <<"MeshNode", step(Parent(h, a)), step(h[a].m_mesh), step(h[a].m_material_instance)>>
         [] h[a].kind = "Mesh" -> <<"Mesh", h[a].m_aabb>>
         [] OTHER -> <<h[a].kind>>

\* the calls that built scene s, in order
HistoryOf(h, ss, s) ==
    {<<StepOf(h, ss, s, a), CallOf(h, ss, s, a)>> : a \in OwnedBy(h, ss, s)}

\* a draw list as the construction steps of the mesh nodes it refers to
DrawSteps(h, ss, s, draw_list) ==
    [k \in DOMAIN draw_list |-> StepOf(h, ss, s, draw_list[k].transform)]

\* C22: two scenes built by the same sequence of calls, differing only in
\* the Identifiers handed out, have draw lists of the same length in which
\* position i refers to the mesh node of the same construction step: the
\* list ComputeDrawList returned for one is, step for step, the list the
\* call returns for the other.
C22_SameHistorySameOrder ==
    last.op = "ComputeDrawList" =>
        \A t \in DOMAIN scenes :
            HistoryOf(heap, scenes, t) = HistoryOf(heap, scenes, last.scene) =>
                DrawSteps(heap, scenes, t, Scene_ComputeDrawList(heap, scenes[t]).result)
                    = DrawSteps(heap, scenes, last.scene, last.result)

(***************************************************************************)
(* What the queries leave alone                                            *)
(***************************************************************************)
QueryOps == Queries \cup {"ToJson"}

\* object a of heap h with the stored transform of a mesh node blanked
SansTransform(h, a) ==
    IF h[a].kind = "MeshNode" THEN [h[a] EXCEPT !.m_transform = Identity] ELSE h[a]

\* C23: ComputeDrawList, ComputeAxisAlignedBoundingBox and ToJson hand out
\* no Identifier and make no object; they leave every child list, every
\* node parameter, every property dictionary, the materials and meshes of
\* every scene, the instances of every material and the mesh-node list of
\* every instance as they were.  The only state that may differ after the
\* call is the stored transform of mesh nodes, and ToJson changes nothing.
C23_QueriesFrame ==
    [][ last'.op \in QueryOps =>
            /\ id' = id
            /\ issued' = issued
            /\ scenes' = scenes
            /\ DOMAIN heap' = DOMAIN heap
            /\ \A a \in Addrs(heap) : SansTransform(heap', a) = SansTransform(heap, a)
            /\ last'.op = "ToJson" => heap' = heap ]_vars

\* a bounding-box query has run on a scene whose mesh node, below the
\* translate node, holds the transform the query wrote, an object of the
\* scene holding a property
C23_Witness ==
    /\ last.op = "ComputeAxisAlignedBoundingBox"
    /\ \E n \in OfKind(heap, "MeshNode") :
           /\ heap[Parent(heap, n)].kind = "Translate"
           /\ heap[n].m_transform = MatMul(Identity, glm_translate(heap[Parent(heap, n)].m_amount))
           /\ heap[n].m_transform \notin GarbageMats
           /\ Object_HasProperties(heap, n)

(***************************************************************************)
(* The draw list and the tree                                              *)
(***************************************************************************)
\* the mesh nodes a draw list refers to
Drawn(draw_list) == {draw_list[k].transform : k \in DOMAIN draw_list}

\* the mesh nodes of the tree of scene s added with an instance of a
\* material of another scene
ForeignMeshNodes(s) == MeshNodesIn(heap, RootOf(s)) \ RegisteredMeshNodes(s)

\* the box of scene s if mesh node n had no mesh to contribute
BoxWithout(s, n) ==
    Scene_ComputeAxisAlignedBoundingBox([heap EXCEPT ![n].m_mesh = NULL], scenes[s]).result

\* C24 as stated: if every mesh node of the scene's tree was added with an
\* instance of a material of the scene, the mesh nodes the draw list refers
\* to are the mesh nodes of the tree; a mesh node of the tree added with an
\* instance of another scene's material is in no entry of the draw list and
\* adds nothing to the bounding box.
C24_DrawListIsTree ==
    /\ last.op = "ComputeDrawList" =>
           /\ ForeignMeshNodes(last.scene) = {} =>
                  Drawn(last.result) = MeshNodesIn(heap, RootOf(last.scene))
           /\ ForeignMeshNodes(last.scene) \cap Drawn(last.result) = {}
    /\ last.op = "ComputeAxisAlignedBoundingBox" =>
           \A n \in ForeignMeshNodes(last.scene) : last.result = BoxWithout(last.scene, n)

\* C24, amended: the mesh nodes the draw list of a scene refers to are the
\* mesh nodes, of any tree, added with an instance of a material of the
\* scene.  They are the mesh nodes of the scene's tree if every mesh node
\* of the tree was added with such an instance and every mesh node added
\* with such an instance is in the tree; a mesh node of the tree added with
\* an instance of another scene's material is in no entry of the draw list
\* and adds nothing to the bounding box.
C24_DrawListAndTree ==
    /\ last.op = "ComputeDrawList" =>
           LET tree == MeshNodesIn(heap, RootOf(last.scene))
           IN /\ Drawn(last.result) \cap tree = tree \ ForeignMeshNodes(last.scene)
              /\ Drawn(last.result) \ tree = RegisteredMeshNodes(last.scene) \ tree
              /\ (/\ ForeignMeshNodes(last.scene) = {}
                  /\ RegisteredMeshNodes(last.scene) \subseteq tree) => Drawn(last.result) = tree
    /\ last.op = "ComputeAxisAlignedBoundingBox" =>
           \A n \in ForeignMeshNodes(last.scene) : last.result = BoxWithout(last.scene, n)

\* the draw list of a scene whose tree holds a mesh node added with an
\* instance of its own material and one added with an instance of another
\* scene's material: one entry, for the first
C24_Witness ==
    /\ last.op = "ComputeDrawList"
    /\ Cardinality(MeshNodesIn(heap, RootOf(last.scene))) = 2
    /\ Cardinality(ForeignMeshNodes(last.scene)) = 1
    /\ Len(last.result) = 1
    /\ last.result[1].transform \in MeshNodesIn(heap, RootOf(last.scene))

(***************************************************************************)
(* The box the bounding-box query returns                                  *)
(***************************************************************************)
\* C25: the box ComputeAxisAlignedBoundingBox returns is well formed, min
\* at most max in each of the three components, in every state a scene can
\* reach, also when the root has children and the tree has no mesh node,
\* where the fold over the mesh nodes runs zero times.
C25_WellFormedBox ==
    last.op = "ComputeAxisAlignedBoundingBox" =>
        \A i \in 1..3 : FltLeq(last.result.min[i], last.result.max[i])

(***************************************************************************)
(* The generated index buffer                                              *)
(***************************************************************************)
\* the first position of the input holding the corner of position k
FirstOccurrence(in, k) == CHOOSE a \in 1..k : in[a] = in[k] /\ \A b \in 1..(a - 1) : in[b] # in[k]

\* C26: GenerateMeshPN removes duplicate vertices by index triple.  For an
\* input of whole triangles the output index buffer is as long as the
\* input, every output index is below the number of output vertices, two
\* input positions get the same output index exactly when their (vertex,
\* normal, texcoord) triples are equal, there are as many output vertices
\* as distinct input triples, and a triple's output index is the number of
\* distinct triples that occur before its first occurrence.
C26_DeduplicatedByTriple ==
    (last.op = "GenerateMeshPN" /\ last.obj # NULL) =>
        LET in == last.result.mesh_indices
            out == last.result.indices
            n == Len(last.result.vertices)
        IN /\ Len(out) = Len(in)
           /\ \A k \in DOMAIN out : out[k] \in 0..(n - 1)
           /\ \A a, b \in DOMAIN in : (out[a] = out[b]) = (in[a] = in[b])
           /\ n = Cardinality(Range(in))
           /\ \A k \in DOMAIN in :
                  out[k] = Cardinality({in[b] : b \in 1..(FirstOccurrence(in, k) - 1)})

\* two triangles sharing a corner, with corners that differ in the texture
\* coordinate alone: six input indices, fewer output vertices, and the
\* second triangle reuses an index of the first
C26_Witness ==
    /\ last.op = "GenerateMeshPN"
    /\ last.obj # NULL
    /\ Len(last.result.mesh_indices) = 6
    /\ Len(last.result.vertices) = 4
    /\ Corner(0, 0, -1) \in Range(last.result.mesh_indices)
    /\ Corner(0, 0, 0) \in Range(last.result.mesh_indices)
    /\ last.result.indices[4] = last.result.indices[1]
    /\ last.result.indices[6] = 3

====
